---- MODULE Spec2Model ----
(***************************************************************************)
(* Model of the aspect / transit / synastry geometry engine of             *)
(* EphemerisDecoder (services/astrology_calculations.py), of the charts    *)
(* derived from a natal chart (progressions, directions, Arabic parts,     *)
(* planetary strength) and of the angle helpers of utils/zodiac.py.        *)
(*                                                                         *)
(* The functions of the engine are stateless, so the state of the model    *)
(* is one call: which function is called (op), its arguments, whether it   *)
(* has returned (pc), and what it returned (result).  Init draws the       *)
(* arguments from bounded sets, one action per function applies it.        *)
(* SpecConcurrent runs two calls on the same argument objects (tasks).     *)
(*                                                                         *)
(* Angles are fixed-point numbers: one model unit is 1/(2*Scale) degree.   *)
(* Planet longitudes lie on the even units, so the midpoint of two         *)
(* longitudes is a whole number of units.                                  *)
(***************************************************************************)
EXTENDS Integers, Sequences, FiniteSets, TLC

VARIABLES
    op,               \* the function called
    pc,               \* "call": arguments bound, body not run; "return": result bound
    angle_diff,       \* argument of _determine_aspect
    angle1,           \* first argument of calculate_orb
    angle2,           \* second argument of calculate_orb
    planets_data,     \* planets_data / natal_planets / person1_planets
    transit_planets,  \* transit_planets / person2_planets
    aspects,          \* aspects: argument of the score and of the strength
    elapsed,          \* progression_date - birth_date, in 1/DayParts days
    ascendant,        \* argument of calculate_arabic_parts
    planet,           \* argument of calculate_planetary_strength
    sign,             \* argument of calculate_planetary_strength, its characters
    house,            \* argument of calculate_planetary_strength
    tasks,            \* concurrent calls on the same charts: what was passed, each call
    result,           \* the value returned
    keys,             \* APIKeyManager.keys, in insertion order
    key_file,         \* the API-key config file: None, or what was written to it
    now,              \* the clock: time.time() and datetime.now()
    max_requests_per_minute,  \* RateLimitMiddleware.max_requests_per_minute
    requests,         \* RateLimitMiddleware.requests: the request times of each client
    request,          \* the arguments of the operation of the service that ran last
    forwarded,        \* for each client, the times at which call_next was given a request
    swe               \* the ephemeris library: what calc_ut does for each body

\* the state of the service layer: keys, limits, clock, ephemeris
limiter == <<max_requests_per_minute, requests>>

service == <<keys, key_file, now, limiter, request, forwarded, swe>>

vars == <<op, pc, angle_diff, angle1, angle2, planets_data, transit_planets,
          aspects, elapsed, ascendant, planet, sign, house, tasks, result, service>>

(***************************************************************************)
(* Bounds                                                                  *)
(***************************************************************************)
\* grid points per degree of a planet longitude; a unit is half a grid step
Scale == 1
\* how many of the longitudes of LonList a planet may take
NumLons == 6
\* parts of a day in which a time difference is measured
DayParts == 2
\* time differences of every length up to this many days, before and after
\* birth
MaxDays == 40
\* the longest run of one aspect in the aspect list of a planet's strength
MaxRepeat == 5
\* planets in the single planet set of calculate_aspects
MaxPlanets == 3
\* entries of an aspect list handed to _calculate_compatibility_score
MaxAspects == 3
\* full turns below 0 and above 360 that an argument of calculate_orb may lie
Turns == 1

\* the largest rate_limit of a key
MaxRate == 2
\* demo keys that failed loads of the config file leave in a manager
MaxDemoKeys == 1
\* the largest max_requests_per_minute of a RateLimitMiddleware
MaxPerMinute == 2

\* clock ticks in the 60 seconds of the rate-limit window
WindowTicks == 2

Deg(d) == 2 * Scale * d

Abs(x) == IF x < 0 THEN -x ELSE x

Min(x, y) == IF x <= y THEN x ELSE y

Max(x, y) == IF x >= y THEN x ELSE y

(***************************************************************************)
(* AspectCalculator: the aspect tables, in declaration order               *)
(***************************************************************************)
MAJOR_ASPECTS ==
    << [name |-> "Conjunction", angle |-> Deg(0),   orb |-> Deg(8), color |-> "#FF0000", style |-> "solid"],
       [name |-> "Opposition",  angle |-> Deg(180), orb |-> Deg(8), color |-> "#FF0000", style |-> "solid"],
       [name |-> "Trine",       angle |-> Deg(120), orb |-> Deg(8), color |-> "#0000FF", style |-> "solid"],
       [name |-> "Square",      angle |-> Deg(90),  orb |-> Deg(8), color |-> "#FF0000", style |-> "solid"],
       [name |-> "Sextile",     angle |-> Deg(60),  orb |-> Deg(6), color |-> "#0000FF", style |-> "dashed"] >>

MINOR_ASPECTS_wide ==
    << [name |-> "Quincunx",       angle |-> Deg(150), orb |-> Deg(4), color |-> "#808080", style |-> "dotted"],
       [name |-> "Semisextile",    angle |-> Deg(30),  orb |-> Deg(3), color |-> "#808080", style |-> "dotted"],
       [name |-> "Quintile",       angle |-> Deg(72),  orb |-> Deg(2), color |-> "#800080", style |-> "dotted"],
       [name |-> "Biquintile",     angle |-> Deg(144), orb |-> Deg(2), color |-> "#800080", style |-> "dotted"],
       [name |-> "Sesquiquadrate", angle |-> Deg(135), orb |-> Deg(3), color |-> "#FF8C00", style |-> "dotted"] >>

MINOR_ASPECTS ==
    << [name |-> "Quincunx",       angle |-> Deg(150), orb |-> Deg(3), color |-> "#808080", style |-> "dotted"],
       [name |-> "Semisextile",    angle |-> Deg(30),  orb |-> Deg(3), color |-> "#808080", style |-> "dotted"],
       [name |-> "Quintile",       angle |-> Deg(72),  orb |-> Deg(2), color |-> "#800080", style |-> "dotted"],
       [name |-> "Biquintile",     angle |-> Deg(144), orb |-> Deg(2), color |-> "#800080", style |-> "dotted"],
       [name |-> "Sesquiquadrate", angle |-> Deg(135), orb |-> Deg(3), color |-> "#FF8C00", style |-> "dotted"] >>

\* Python's None, as _determine_aspect returns it
None == [aspect |-> "None", orb |-> 0, is_major |-> FALSE, color |-> "", style |-> ""]

(***************************************************************************)
(* AspectCalculator._determine_aspect                                      *)
(***************************************************************************)
admits_strict(diff, aspect_data) == Abs(diff - aspect_data.angle) < aspect_data.orb

\* the test of one table entry: abs(angle_diff - angle) <= orb
admits(diff, aspect_data) == Abs(diff - aspect_data.angle) <= aspect_data.orb

aspect_orb_signed(diff, aspect_data) == diff - aspect_data.angle

\* the orb reported for the entry that matched
aspect_orb(diff, aspect_data) == Abs(diff - aspect_data.angle)

\* one of the two for-loops over a table, from its i-th entry on: the first
\* entry that admits the difference returns
RECURSIVE scan_aspects(_, _, _, _)
scan_aspects(table, is_major, diff, i) ==
    IF i > Len(table) THEN None
    ELSE IF admits(diff, table[i])
         THEN [aspect   |-> table[i].name,
               orb      |-> aspect_orb(diff, table[i]),
               is_major |-> is_major,
               color    |-> table[i].color,
               style    |-> table[i].style]
         ELSE scan_aspects(table, is_major, diff, i + 1)

\* the body of _determine_aspect over the tables it is given: the major
\* table is scanned first, the minor table only when no major entry returned
determine_aspect_in(major_table, minor_table, diff) ==
    LET major == scan_aspects(major_table, TRUE, diff, 1)
    IN  IF major # None THEN major
        ELSE scan_aspects(minor_table, FALSE, diff, 1)

determine_aspect(diff) == determine_aspect_in(MAJOR_ASPECTS, MINOR_ASPECTS, diff)

(***************************************************************************)
(* utils/zodiac.py                                                         *)
(***************************************************************************)
calculate_orb_no_abs(a1, a2) ==
    LET diff == a1 - a2
    IN  Min(diff, Deg(360) - diff)

calculate_orb(a1, a2) ==
    LET diff == Abs(a1 - a2)
    IN  Min(diff, Deg(360) - diff)

(***************************************************************************)
(* normalize_angle: angle % 360, the remainder that takes the sign of the  *)
(* divisor                                                                 *)
(***************************************************************************)
normalize_angle_truncated(angle) ==
    IF angle >= 0 THEN angle % Deg(360) ELSE -((-angle) % Deg(360))

normalize_angle(angle) == angle % Deg(360)

(***************************************************************************)
(* The separation step written inline in calculate_aspects,                *)
(* calculate_transits and calculate_synastry                               *)
(***************************************************************************)
inline_diff(a1, a2) ==
    LET diff == Abs(a1 - a2)
    IN  IF diff > Deg(180) THEN Deg(360) - diff ELSE diff

(***************************************************************************)
(* sorted(..., key=lambda x: x["orb"]): ascending and stable               *)
(***************************************************************************)
not_sorted(s) == s

RECURSIVE sorted_by_orb(_)
sorted_by_orb(s) ==
    IF s = << >> THEN << >>
    ELSE LET head == sorted_by_orb(SubSeq(s, 1, Len(s) - 1))
             x    == s[Len(s)]
         IN  SelectSeq(head, LAMBDA e : e.orb <= x.orb) \o << x >>
                \o SelectSeq(head, LAMBDA e : e.orb > x.orb)

(***************************************************************************)
(* AspectCalculator.calculate_aspects                                      *)
(* A planet map is a Python dict: a sequence of [name, longitude] entries  *)
(* in insertion order, with no name twice.  The "description" text of an   *)
(* entry is display formatting of the other fields and is left out.        *)
(***************************************************************************)
inner_names_all(planet_names, i) == planet_names

\* planet_names[i+1:], the planets the inner loop pairs with the i-th
inner_names(planet_names, i) == SubSeq(planet_names, i + 1, Len(planet_names))

\* the body of the inner loop: what one pair appends to the list
aspect_entry(planet1, planet2) ==
    LET diff        == inline_diff(planet1.longitude, planet2.longitude)
        aspect_info == determine_aspect(diff)
    IN  IF aspect_info # None
        THEN << [planet1    |-> planet1.name,
                 planet2    |-> planet2.name,
                 aspect     |-> aspect_info.aspect,
                 orb        |-> aspect_info.orb,
                 is_major   |-> aspect_info.is_major,
                 color      |-> aspect_info.color,
                 style      |-> aspect_info.style,
                 angle_diff |-> diff] >>
        ELSE << >>

RECURSIVE aspects_inner(_, _, _)
aspects_inner(planet1, others, j) ==
    IF j > Len(others) THEN << >>
    ELSE aspect_entry(planet1, others[j]) \o aspects_inner(planet1, others, j + 1)

RECURSIVE aspects_outer(_, _)
aspects_outer(planets, i) ==
    IF i > Len(planets) THEN << >>
    ELSE aspects_inner(planets[i], inner_names(planets, i), 1)
            \o aspects_outer(planets, i + 1)

calculate_aspects(planets) == sorted_by_orb(aspects_outer(planets, 1))

(***************************************************************************)
(* TransitCalculator.calculate_transits                                    *)
(* transit_date is copied into every entry as text and is left out.        *)
(***************************************************************************)
transit_entry(transit_planet, natal_planet) ==
    LET transit_longitude == transit_planet.longitude
        natal_longitude   == natal_planet.longitude
        diff              == inline_diff(transit_longitude, natal_longitude)
        aspect_info       == determine_aspect(diff)
    IN  IF aspect_info # None
        THEN << [transit_planet    |-> transit_planet.name,
                 natal_planet      |-> natal_planet.name,
                 aspect            |-> aspect_info.aspect,
                 orb               |-> aspect_info.orb,
                 is_major          |-> aspect_info.is_major,
                 color             |-> aspect_info.color,
                 style             |-> aspect_info.style,
                 transit_longitude |-> transit_longitude,
                 natal_longitude   |-> natal_longitude,
                 angle_diff        |-> diff] >>
        ELSE << >>

RECURSIVE transits_inner(_, _, _)
transits_inner(transit_planet, natal, j) ==
    IF j > Len(natal) THEN << >>
    ELSE transit_entry(transit_planet, natal[j])
            \o transits_inner(transit_planet, natal, j + 1)

RECURSIVE transits_outer(_, _, _)
transits_outer(natal, transit, i) ==
    IF i > Len(transit) THEN << >>
    ELSE transits_inner(transit[i], natal, 1) \o transits_outer(natal, transit, i + 1)

calculate_transits_skip_self(natal, transit) ==
    sorted_by_orb(SelectSeq(transits_outer(natal, transit, 1),
                            LAMBDA e : e.transit_planet # e.natal_planet))

calculate_transits(natal, transit) == sorted_by_orb(transits_outer(natal, transit, 1))

(***************************************************************************)
(* TransitCalculator._longitude_to_sign                                    *)
(***************************************************************************)
signs ==
    << "Aries", "Taurus", "Gemini", "Cancer", "Leo", "Virgo",
       "Libra", "Scorpio", "Sagittarius", "Capricorn", "Aquarius", "Pisces" >>

longitude_to_sign(longitude) ==
    LET sign_index == longitude \div Deg(30)
    IN  signs[(sign_index % 12) + 1]

(***************************************************************************)
(* SynastryCalculator._calculate_compatibility_score                       *)
(* int((score / max_possible_score) * 100) truncates a non-negative        *)
(* quotient: the floor of 100*score/max.  (The double-precision product    *)
(* first differs from the exact floor at 50 aspects of weight sum 87,      *)
(* far above MaxAspects.)                                                  *)
(***************************************************************************)
aspect_weight_minor_zero(aspect) ==
    IF aspect.is_major
    THEN IF aspect.aspect \in {"Trine", "Sextile"} THEN 3
         ELSE IF aspect.aspect \in {"Conjunction"} THEN 2
         ELSE IF aspect.aspect \in {"Square", "Opposition"} THEN 1
         ELSE 0
    ELSE 0

\* the weights of the harmonious and the tense aspects exchanged
aspect_weight_tense_high(aspect) ==
    IF aspect.is_major
    THEN IF aspect.aspect \in {"Trine", "Sextile"} THEN 1
         ELSE IF aspect.aspect \in {"Conjunction"} THEN 2
         ELSE IF aspect.aspect \in {"Square", "Opposition"} THEN 3
         ELSE 0
    ELSE 1

aspect_weight(aspect) ==
    IF aspect.is_major
    THEN IF aspect.aspect \in {"Trine", "Sextile"} THEN 3
         ELSE IF aspect.aspect \in {"Conjunction"} THEN 2
         ELSE IF aspect.aspect \in {"Square", "Opposition"} THEN 1
         ELSE 0
    ELSE 1

RECURSIVE weight_sum(_, _)
weight_sum(list, i) ==
    IF i > Len(list) THEN 0
    ELSE aspect_weight(list[i]) + weight_sum(list, i + 1)

\* an empty list scored as the middle of the scale
calculate_compatibility_score_neutral_empty(list) ==
    LET score              == weight_sum(list, 1)
        max_possible_score == Len(list) * 3
        normalized         == IF max_possible_score > 0
                              THEN (score * 100) \div max_possible_score
                              ELSE 50
    IN  Min(100, Max(0, normalized))

calculate_compatibility_score(list) ==
    LET score              == weight_sum(list, 1)
        max_possible_score == Len(list) * 3
        normalized         == IF max_possible_score > 0
                              THEN (score * 100) \div max_possible_score
                              ELSE score
    IN  Min(100, Max(0, normalized))

(***************************************************************************)
(* SynastryCalculator.calculate_synastry                                   *)
(***************************************************************************)
synastry_entry(planet1, planet2) ==
    LET diff        == inline_diff(planet1.longitude, planet2.longitude)
        aspect_info == determine_aspect(diff)
    IN  IF aspect_info # None
        THEN << [person1_planet |-> planet1.name,
                 person2_planet |-> planet2.name,
                 aspect         |-> aspect_info.aspect,
                 orb            |-> aspect_info.orb,
                 is_major       |-> aspect_info.is_major,
                 color          |-> aspect_info.color,
                 style          |-> aspect_info.style] >>
        ELSE << >>

RECURSIVE synastry_inner(_, _, _)
synastry_inner(planet1, person2, j) ==
    IF j > Len(person2) THEN << >>
    ELSE synastry_entry(planet1, person2[j]) \o synastry_inner(planet1, person2, j + 1)

RECURSIVE synastry_outer(_, _, _)
synastry_outer(person1, person2, i) ==
    IF i > Len(person1) THEN << >>
    ELSE synastry_inner(person1[i], person2, 1) \o synastry_outer(person1, person2, i + 1)

\* person2_planets[planet_name]
lookup(planets, name) == planets[CHOOSE j \in 1..Len(planets) : planets[j].name = name]

has_planet(planets, name) == \E j \in 1..Len(planets) : planets[j].name = name

\* the arithmetic mean, with no correction of the wrap at 0/360
composite_point_plain_mean(planet_name, l1, l2) ==
    LET composite_angle == ((l1 + l2) \div 2) % Deg(360)
    IN  [planet              |-> planet_name,
         person1_longitude   |-> l1,
         person2_longitude   |-> l2,
         composite_longitude |-> composite_angle,
         composite_sign      |-> longitude_to_sign(composite_angle)]

\* the wrap correction applied also when the first longitude is exactly
\* half a turn past the second
composite_point_half_turn_raised(planet_name, l1, l2) ==
    LET wrap == (l1 - l2 >= Deg(180)) \/ (l2 - l1 > Deg(180))
        a1   == IF wrap /\ l1 < l2 THEN l1 + Deg(360) ELSE l1
        a2   == IF wrap /\ ~(l1 < l2) THEN l2 + Deg(360) ELSE l2
        composite_angle == ((a1 + a2) \div 2) % Deg(360)
    IN  [planet              |-> planet_name,
         person1_longitude   |-> l1,
         person2_longitude   |-> l2,
         composite_longitude |-> composite_angle,
         composite_sign      |-> longitude_to_sign(composite_angle)]

\* the composite point of one planet that both charts hold
composite_point(planet_name, l1, l2) ==
    LET wrap == Abs(l1 - l2) > Deg(180)
        a1   == IF wrap /\ l1 < l2 THEN l1 + Deg(360) ELSE l1
        a2   == IF wrap /\ ~(l1 < l2) THEN l2 + Deg(360) ELSE l2
        composite_angle == ((a1 + a2) \div 2) % Deg(360)
    IN  [planet              |-> planet_name,
         person1_longitude   |-> l1,
         person2_longitude   |-> l2,
         composite_longitude |-> composite_angle,
         composite_sign      |-> longitude_to_sign(composite_angle)]

RECURSIVE composite_points(_, _, _)
composite_points(person1, person2, i) ==
    IF i > Len(person1) THEN << >>
    ELSE (IF has_planet(person2, person1[i].name)
          THEN << composite_point(person1[i].name, person1[i].longitude,
                                  lookup(person2, person1[i].name).longitude) >>
          ELSE << >>)
            \o composite_points(person1, person2, i + 1)

\* the chart with the wrap correction of a composite point stored in it
raised_where_wrapped(planets, others) ==
    [i \in DOMAIN planets |->
        IF /\ has_planet(others, planets[i].name)
           /\ Abs(planets[i].longitude - lookup(others, planets[i].name).longitude) > Deg(180)
           /\ planets[i].longitude < lookup(others, planets[i].name).longitude
        THEN [planets[i] EXCEPT !.longitude = planets[i].longitude + Deg(360)]
        ELSE planets[i]]

\* the two charts after a call in which angle1 += 360 and angle2 += 360
\* were stores into the charts
synastry_arguments_written_back(person1, person2) ==
    << raised_where_wrapped(person1, person2), raised_where_wrapped(person2, person1) >>

\* the two charts after the call: angle1 and angle2 are local numbers, and
\* angle1 += 360, angle2 += 360 store into the locals, not into the charts
synastry_arguments_after(person1, person2) == << person1, person2 >>

calculate_synastry(person1, person2) ==
    LET aspect_list == synastry_outer(person1, person2, 1)
    IN  [aspects             |-> aspect_list,
         composite_points    |-> composite_points(person1, person2, 1),
         compatibility_score |-> calculate_compatibility_score(aspect_list)]

(***************************************************************************)
(* TransitCalculator.calculate_progressions                                *)
(* The isoformat text of the date is left out of an entry.                 *)
(***************************************************************************)
\* timedelta.days: the whole days of a time difference, rounded down, so
\* that an hour before birth is day -1
timedelta_days(delta) == delta \div DayParts

\* no reduction of the Moon's longitude into a single turn
progressed_longitude_unreduced(name, longitude, days_since_birth) ==
    IF name = "Moon" THEN longitude + Deg(days_since_birth) ELSE longitude

progressed_longitude(name, longitude, days_since_birth) ==
    IF name = "Moon"
    THEN (longitude + Deg(days_since_birth)) % Deg(360)
    ELSE longitude

progression_entry(natal_planet, days_since_birth) ==
    LET progressed == progressed_longitude(natal_planet.name, natal_planet.longitude,
                                           days_since_birth)
    IN  [planet               |-> natal_planet.name,
         natal_longitude      |-> natal_planet.longitude,
         progressed_longitude |-> progressed,
         progressed_sign      |-> longitude_to_sign(progressed),
         days_since_birth     |-> days_since_birth]

calculate_progressions(natal_planets, delta) ==
    LET days_since_birth == timedelta_days(delta)
    IN  [i \in DOMAIN natal_planets |->
            progression_entry(natal_planets[i], days_since_birth)]

(***************************************************************************)
(* DirectionCalculator.calculate_primary_directions                        *)
(* A year is 365.25 days, so the days elapsed are DaysIn4Years-ths of four *)
(* degrees; directed_longitude is kept exact, in DaysIn4Years-ths of a     *)
(* model unit.  years_since_birth, round(years, 2), is in hundredths: no   *)
(* whole number of days lies midway between two hundredths of a year.      *)
(* The isoformat text of the date and the description are left out.        *)
(***************************************************************************)
DaysIn4Years == 1461

\* the Moon left at its natal longitude
directed_longitude_moon_held(name, longitude, days) ==
    IF name = "Moon" THEN longitude * DaysIn4Years
    ELSE (longitude * DaysIn4Years + days * Deg(4)) % (Deg(360) * DaysIn4Years)

directed_longitude(name, longitude, days) ==
    (longitude * DaysIn4Years + days * Deg(4)) % (Deg(360) * DaysIn4Years)

direction_entry(planet_info, days) ==
    LET directed == directed_longitude(planet_info.name, planet_info.longitude, days)
    IN  [planet             |-> planet_info.name,
         natal_longitude    |-> planet_info.longitude,
         directed_longitude |-> directed,
         directed_sign      |-> longitude_to_sign(directed \div DaysIn4Years),
         years_since_birth  |-> (800 * days + DaysIn4Years) \div (2 * DaysIn4Years)]

calculate_primary_directions(natal_planets, delta) ==
    LET days == timedelta_days(delta)
    IN  [i \in DOMAIN natal_planets |-> direction_entry(natal_planets[i], days)]

(***************************************************************************)
(* ArabicPartsCalculator.calculate_arabic_parts                            *)
(* The dict returned is the sequence of its entries in insertion order;    *)
(* the description of a part is left out.                                  *)
(***************************************************************************)
\* a part computed only in a chart that holds the Sun and the Moon as well
has_bodies_and_lights(natal_planets, first, second) ==
    /\ has_planet(natal_planets, "Sun") /\ has_planet(natal_planets, "Moon")
    /\ has_planet(natal_planets, first) /\ has_planet(natal_planets, second)

\* "X" in natal_planets and "Y" in natal_planets
has_bodies(natal_planets, first, second) ==
    has_planet(natal_planets, first) /\ has_planet(natal_planets, second)

\* the sum left as it is, not reduced into a single turn
part_longitude_unreduced(asc, plus, minus) == asc + (plus - minus)

part_longitude(asc, plus, minus) == (asc + (plus - minus)) % Deg(360)

arabic_part(name, formula, natal_planets, asc, plus, minus) ==
    IF has_bodies(natal_planets, plus, minus)
    THEN LET part == part_longitude(asc, lookup(natal_planets, plus).longitude,
                                    lookup(natal_planets, minus).longitude)
         IN  << [name      |-> name,
                 longitude |-> part,
                 sign      |-> longitude_to_sign(part),
                 formula   |-> formula] >>
    ELSE << >>

calculate_arabic_parts(natal_planets, asc) ==
    arabic_part("Part_of_Fortune", "Asc + (Moon - Sun)", natal_planets, asc, "Moon", "Sun")
        \o
    arabic_part("Part_of_Spirit", "Asc + (Sun - Moon)", natal_planets, asc, "Sun", "Moon")
        \o
    arabic_part("Part_of_Marriage", "Asc + (Venus - Saturn)", natal_planets, asc,
                "Venus", "Saturn")

(***************************************************************************)
(* AstrologicalUtilities.calculate_planetary_strength                      *)
(* The sign argument is a string, modelled as the sequence of its          *)
(* characters: "sign in rulership" is membership when the rulership is a   *)
(* list of signs and a substring test when it is a single string.  The     *)
(* factors, Russian texts in the source, are given in English.             *)
(***************************************************************************)
\* the characters of a string
Text(s) ==
    CASE s = "Aries"       -> << "A", "r", "i", "e", "s" >>
      [] s = "Taurus"      -> << "T", "a", "u", "r", "u", "s" >>
      [] s = "Gemini"      -> << "G", "e", "m", "i", "n", "i" >>
      [] s = "Cancer"      -> << "C", "a", "n", "c", "e", "r" >>
      [] s = "Leo"         -> << "L", "e", "o" >>
      [] s = "Virgo"       -> << "V", "i", "r", "g", "o" >>
      [] s = "Libra"       -> << "L", "i", "b", "r", "a" >>
      [] s = "Scorpio"     -> << "S", "c", "o", "r", "p", "i", "o" >>
      [] s = "Sagittarius" -> << "S", "a", "g", "i", "t", "t", "a", "r", "i", "u", "s" >>
      [] s = "Capricorn"   -> << "C", "a", "p", "r", "i", "c", "o", "r", "n" >>
      [] s = "Aquarius"    -> << "A", "q", "u", "a", "r", "i", "u", "s" >>
      [] s = "Pisces"      -> << "P", "i", "s", "c", "e", "s" >>
      [] s = "Oven"        -> << "O", "v", "e", "n" >>
      [] s = ""            -> << >>

\* a rulership kept as one string is [str |-> sign], one kept as a list of
\* strings is [list |-> signs]
dignities ==
    [ Sun     |-> [exaltation |-> "Aries",     fall |-> "Libra",
                   rulership  |-> [str |-> "Leo"]],
      Moon    |-> [exaltation |-> "Taurus",    fall |-> "Scorpio",
                   rulership  |-> [str |-> "Cancer"]],
      Mercury |-> [exaltation |-> "Virgo",     fall |-> "Pisces",
                   rulership  |-> [list |-> << "Gemini", "Virgo" >>]],
      Venus   |-> [exaltation |-> "Pisces",    fall |-> "Virgo",
                   rulership  |-> [list |-> << "Taurus", "Libra" >>]],
      Mars    |-> [exaltation |-> "Capricorn", fall |-> "Cancer",
                   rulership  |-> [list |-> << "Aries", "Scorpio" >>]],
      Jupiter |-> [exaltation |-> "Cancer",    fall |-> "Capricorn",
                   rulership  |-> [list |-> << "Sagittarius", "Pisces" >>]],
      Saturn  |-> [exaltation |-> "Libra",     fall |-> "Aries",
                   rulership  |-> [list |-> << "Capricorn", "Aquarius" >>]] ]

\* x in text, both strings: x occurs in text as a run of characters
is_substring(x, text) ==
    \E i \in 0..(Len(text) - Len(x)) : SubSeq(text, i + 1, i + Len(x)) = x

\* sign in rulership
sign_in(sign_text, rulership) ==
    IF "str" \in DOMAIN rulership
    THEN is_substring(sign_text, Text(rulership.str))
    ELSE \E k \in DOMAIN rulership.list : sign_text = Text(rulership.list[k])

\* the rulership tested before the exaltation and the fall
dignity_rulership_first(planet_name, sign_text) ==
    IF planet_name \in DOMAIN dignities
    THEN LET planet_dignities == dignities[planet_name]
         IN  IF sign_in(sign_text, planet_dignities.rulership) THEN "rulership"
             ELSE IF sign_text = Text(planet_dignities.exaltation) THEN "exaltation"
             ELSE IF sign_text = Text(planet_dignities.fall) THEN "fall"
             ELSE "neutral"
    ELSE "neutral"

\* strength["dignity"] after the if / elif / elif of the dignities
dignity(planet_name, sign_text) ==
    IF planet_name \in DOMAIN dignities
    THEN LET planet_dignities == dignities[planet_name]
         IN  IF sign_text = Text(planet_dignities.exaltation) THEN "exaltation"
             ELSE IF sign_text = Text(planet_dignities.fall) THEN "fall"
             ELSE IF sign_in(sign_text, planet_dignities.rulership) THEN "rulership"
             ELSE "neutral"
    ELSE "neutral"

dignity_score(d) ==
    IF d = "exaltation" THEN 20
    ELSE IF d = "fall" THEN -20
    ELSE IF d = "rulership" THEN 15
    ELSE 0

dignity_factors(d) ==
    IF d = "exaltation" THEN << "Exaltation" >>
    ELSE IF d = "fall" THEN << "Fall" >>
    ELSE IF d = "rulership" THEN << "Rulership" >>
    ELSE << >>

house_score(house_number) ==
    IF house_number \in {1, 4, 7, 10} THEN 10
    ELSE IF house_number \in {2, 5, 8, 11} THEN 5
    ELSE IF house_number \in {3, 6, 9, 12} THEN -5
    ELSE 0

house_factors(house_number) ==
    IF house_number \in {1, 4, 7, 10} THEN << "Angular house" >>
    ELSE IF house_number \in {2, 5, 8, 11} THEN << "Succedent house" >>
    ELSE IF house_number \in {3, 6, 9, 12} THEN << "Cadent house" >>
    ELSE << >>

aspect_score(aspect) ==
    IF aspect.is_major
    THEN IF aspect.aspect \in {"Trine", "Sextile"} THEN 5
         ELSE IF aspect.aspect \in {"Square", "Opposition"} THEN -3
         ELSE 0
    ELSE 0

aspect_factors(aspect) ==
    IF aspect.is_major
    THEN IF aspect.aspect = "Trine" THEN << "Harmonious aspect: Trine" >>
         ELSE IF aspect.aspect = "Sextile" THEN << "Harmonious aspect: Sextile" >>
         ELSE IF aspect.aspect = "Square" THEN << "Tense aspect: Square" >>
         ELSE IF aspect.aspect = "Opposition" THEN << "Tense aspect: Opposition" >>
         ELSE << >>
    ELSE << >>

RECURSIVE aspects_score(_, _)
aspects_score(list, i) ==
    IF i > Len(list) THEN 0
    ELSE aspect_score(list[i]) + aspects_score(list, i + 1)

RECURSIVE aspects_factors(_, _)
aspects_factors(list, i) ==
    IF i > Len(list) THEN << >>
    ELSE aspect_factors(list[i]) \o aspects_factors(list, i + 1)

calculate_planetary_strength(planet_name, sign_text, house_number, list) ==
    LET d     == dignity(planet_name, sign_text)
        score == 50 + dignity_score(d) + house_score(house_number)
                    + aspects_score(list, 1)
    IN  [dignity |-> d,
         score   |-> Max(0, Min(100, score)),
         factors |-> dignity_factors(d) \o house_factors(house_number)
                        \o aspects_factors(list, 1)]

(***************************************************************************)
(* The arguments a call may have                                           *)
(***************************************************************************)
\* longitudes in whole degrees.  The first five give exact aspects (8-128,
\* 8-188, 128-188), edges of tolerance windows (0-8, 0-128, 0-188 and the
\* minor 128-350), pairs in no aspect (350 with 0, 8, 188) and differences
\* above 180 (0-188, 128-350); the sixth adds Squares and a second wrap
LonList == << 0, 8, 128, 188, 350, 98, 60, 172, 147, 9, 180, 30 >>

Lons == { Deg(LonList[k]) : k \in 1..Min(NumLons, Len(LonList)) }

PlanetNames == { "Sun", "Moon", "Mercury", "Venus" }

\* the bodies of the two charts of calculate_transits and calculate_synastry
CrossNames == { "Sun", "Moon" }

\* a planet map: the names ns in insertion order, each with its longitude
PlanetMap(ns, ls) == [i \in DOMAIN ns |-> [name |-> ns[i], longitude |-> ls[i]]]

\* the keys of a dict are distinct
NoNameTwice(ns) == \A i, j \in DOMAIN ns : i # j => ns[i] # ns[j]

\* every longitude of the grid in [0,360)
GridLons == { 2 * k : k \in 0..(360 * Scale - 1) }

\* the longitudes of the first chart that are paired with every grid
\* longitude of the second: both sides of the wrap, the quarter turns
PivotLons == { Deg(d) : d \in {0, 10, 90, 180, 270, 350} }

\* natal longitudes of the derived charts, in whole degrees: the Moon at
\* 100, both sides of the wrap, the wrap itself
NatalList == << 100, 350, 0, 10, 359, 180, 280, 45 >>

NatalLons == { Deg(NatalList[k]) : k \in 1..Min(NumLons, Len(NatalList)) }

\* time differences of 1, 4, 20 and 360 years, before and after birth
LongDays == { 365, 366, 1461, 7305, 131490 }

Deltas ==
    ((-MaxDays * DayParts)..(MaxDays * DayParts))
        \cup { d * DayParts : d \in LongDays }
        \cup { -d * DayParts : d \in LongDays }

\* the bodies the Arabic parts read, in the order of the chart
PartBodies == << "Sun", "Moon", "Venus", "Saturn" >>

\* the chart that holds body ns[i] at ls[i] where held[i], and no other
HeldMap(ns, ls, held) ==
    LET keep == SelectSeq([i \in DOMAIN ns |-> i], LAMBDA i : held[i])
    IN  [k \in DOMAIN keep |-> [name |-> ns[keep[k]], longitude |-> ls[keep[k]]]]

\* an aspect as _calculate_compatibility_score reads it
AspectKinds ==
    { [aspect |-> MAJOR_ASPECTS[k].name, is_major |-> TRUE] : k \in 1..Len(MAJOR_ASPECTS) }
        \cup
    { [aspect |-> MINOR_ASPECTS[k].name, is_major |-> FALSE] : k \in 1..Len(MINOR_ASPECTS) }

AspectLists == UNION { [1..k -> AspectKinds] : k \in 0..MaxAspects }

\* arguments of calculate_orb: any angle up to Turns full turns outside [0,360)
OrbAngles == (-Turns * Deg(360))..((Turns + 1) * Deg(360))

OrbAngles1 == { k * Deg(90) : k \in (-4 * Turns)..(4 * (Turns + 1)) }

\* the planets of a chart: those of the dignity table and one outside it
StrengthPlanets == DOMAIN dignities \cup { "Pluto" }

\* the signs a caller may pass: the zodiac, a sign name of the ephemeris
\* layer (in another language), and the empty default
SignInputs ==
    { Text(signs[k]) : k \in DOMAIN signs } \cup { Text("Oven"), Text("") }

\* house 0 is the default of a planet without a house; 13 is no house
HouseInputs == 0..13

ShortAspectLists == { << >> } \cup { << a >> : a \in AspectKinds }

\* n times the aspect a
Repeat(a, n) == [i \in 1..n |-> a]

(***************************************************************************)
(* Initial states: one call, its arguments bound                           *)
(***************************************************************************)
\* the call is made on the core directly: no key, no request, no ephemeris
NoService ==
    /\ keys = << >> /\ key_file = None /\ now = 0
    /\ max_requests_per_minute = 0 /\ requests = << >>
    /\ request = None /\ forwarded = << >> /\ swe = << >>

\* the call takes no time difference, ascendant, planet, sign or house
NoDerivedArgs ==
    elapsed = 0 /\ ascendant = 0 /\ planet = "" /\ sign = << >> /\ house = 0

\* the call takes no angle and no second chart
NoAngleArgs ==
    angle_diff = 0 /\ angle1 = 0 /\ angle2 = 0 /\ transit_planets = << >>

InitDetermineAspect ==
    /\ op = "_determine_aspect" /\ pc = "call" /\ result = None
    /\ NoService
    /\ tasks = << >>
    /\ NoDerivedArgs
    /\ angle_diff \in 0..Deg(180)
    /\ angle1 = 0 /\ angle2 = 0
    /\ planets_data = << >> /\ transit_planets = << >> /\ aspects = << >>

InitCalculateOrb ==
    /\ op = "calculate_orb" /\ pc = "call" /\ result = None
    /\ NoService
    /\ tasks = << >>
    /\ NoDerivedArgs
    /\ angle1 \in OrbAngles1 /\ angle2 \in OrbAngles
    /\ angle_diff = 0
    /\ planets_data = << >> /\ transit_planets = << >> /\ aspects = << >>

InitNormalizeAngle ==
    /\ op = "normalize_angle" /\ pc = "call" /\ result = None
    /\ NoService
    /\ tasks = << >>
    /\ NoDerivedArgs
    /\ angle1 \in OrbAngles
    /\ angle_diff = 0 /\ angle2 = 0
    /\ planets_data = << >> /\ transit_planets = << >> /\ aspects = << >>

InitCalculateAspects ==
    /\ op = "calculate_aspects" /\ pc = "call" /\ result = None
    /\ NoService
    /\ tasks = << >>
    /\ NoDerivedArgs
    /\ \E k \in 0..Min(MaxPlanets, Cardinality(PlanetNames)) :
          \E ns \in [1..k -> PlanetNames], ls \in [1..k -> Lons] :
              /\ NoNameTwice(ns)
              /\ planets_data = PlanetMap(ns, ls)
    /\ angle_diff = 0 /\ angle1 = 0 /\ angle2 = 0
    /\ transit_planets = << >> /\ aspects = << >>

InitCalculateTransits ==
    /\ op = "calculate_transits" /\ pc = "call" /\ result = None
    /\ NoService
    /\ tasks = << >>
    /\ NoDerivedArgs
    /\ \E k \in 0..Cardinality(CrossNames) :
          \E ns \in [1..k -> CrossNames], ls \in [1..k -> Lons] :
              /\ NoNameTwice(ns)
              /\ planets_data = PlanetMap(ns, ls)
    /\ \E k \in 0..Cardinality(CrossNames) :
          \E ns \in [1..k -> CrossNames], ls \in [1..k -> Lons] :
              /\ NoNameTwice(ns)
              /\ transit_planets = PlanetMap(ns, ls)
    /\ angle_diff = 0 /\ angle1 = 0 /\ angle2 = 0
    /\ aspects = << >>

InitCalculateSynastry ==
    /\ op = "calculate_synastry" /\ pc = "call" /\ result = None
    /\ NoService
    /\ tasks = << >>
    /\ NoDerivedArgs
    /\ \E k \in 0..Cardinality(CrossNames) :
          \E ns \in [1..k -> CrossNames], ls \in [1..k -> Lons] :
              /\ NoNameTwice(ns)
              /\ planets_data = PlanetMap(ns, ls)
    /\ \E k \in 0..Cardinality(CrossNames) :
          \E ns \in [1..k -> CrossNames], ls \in [1..k -> Lons] :
              /\ NoNameTwice(ns)
              /\ transit_planets = PlanetMap(ns, ls)
    /\ angle_diff = 0 /\ angle1 = 0 /\ angle2 = 0
    /\ aspects = << >>

\* two charts holding the same one body, for the composite point
InitCompositePair ==
    /\ op = "calculate_synastry" /\ pc = "call" /\ result = None
    /\ NoService
    /\ tasks = << >>
    /\ NoDerivedArgs
    /\ \E l1 \in PivotLons, l2 \in GridLons :
          /\ planets_data = PlanetMap(<< "Sun" >>, << l1 >>)
          /\ transit_planets = PlanetMap(<< "Sun" >>, << l2 >>)
    /\ angle_diff = 0 /\ angle1 = 0 /\ angle2 = 0
    /\ aspects = << >>

InitCompatibilityScore ==
    /\ op = "_calculate_compatibility_score" /\ pc = "call" /\ result = None
    /\ NoService
    /\ tasks = << >>
    /\ NoDerivedArgs
    /\ aspects \in AspectLists
    /\ angle_diff = 0 /\ angle1 = 0 /\ angle2 = 0
    /\ planets_data = << >> /\ transit_planets = << >>

InitCalculateProgressions ==
    /\ op = "calculate_progressions" /\ pc = "call" /\ result = None
    /\ NoService
    /\ tasks = << >>
    /\ \E k \in 0..Cardinality(CrossNames) :
          \E ns \in [1..k -> CrossNames], ls \in [1..k -> NatalLons] :
              /\ NoNameTwice(ns)
              /\ planets_data = PlanetMap(ns, ls)
    /\ elapsed \in Deltas
    /\ NoAngleArgs /\ aspects = << >>
    /\ ascendant = 0 /\ planet = "" /\ sign = << >> /\ house = 0

InitCalculatePrimaryDirections ==
    /\ op = "calculate_primary_directions" /\ pc = "call" /\ result = None
    /\ NoService
    /\ tasks = << >>
    /\ \E k \in 0..Cardinality(CrossNames) :
          \E ns \in [1..k -> CrossNames], ls \in [1..k -> NatalLons] :
              /\ NoNameTwice(ns)
              /\ planets_data = PlanetMap(ns, ls)
    /\ elapsed \in Deltas
    /\ NoAngleArgs /\ aspects = << >>
    /\ ascendant = 0 /\ planet = "" /\ sign = << >> /\ house = 0

InitCalculateArabicParts ==
    /\ op = "calculate_arabic_parts" /\ pc = "call" /\ result = None
    /\ NoService
    /\ tasks = << >>
    /\ \E held \in [DOMAIN PartBodies -> BOOLEAN], ls \in [DOMAIN PartBodies -> NatalLons] :
          /\ \A i \in DOMAIN PartBodies : ~held[i] => ls[i] = Deg(NatalList[1])
          /\ planets_data = HeldMap(PartBodies, ls, held)
    /\ ascendant \in NatalLons
    /\ NoAngleArgs /\ aspects = << >>
    /\ elapsed = 0 /\ planet = "" /\ sign = << >> /\ house = 0

\* every planet, sign and house, with at most one aspect
InitStrengthDignities ==
    /\ op = "calculate_planetary_strength" /\ pc = "call" /\ result = None
    /\ NoService
    /\ tasks = << >>
    /\ planet \in StrengthPlanets
    /\ sign \in SignInputs
    /\ house \in HouseInputs
    /\ aspects \in ShortAspectLists
    /\ NoAngleArgs /\ planets_data = << >>
    /\ elapsed = 0 /\ ascendant = 0

\* long aspect lists, two runs of one aspect each, for the Sun exalted, in
\* fall and in neither, in an angular and in a cadent house
InitStrengthAspects ==
    /\ op = "calculate_planetary_strength" /\ pc = "call" /\ result = None
    /\ NoService
    /\ tasks = << >>
    /\ planet = "Sun"
    /\ sign \in { Text("Aries"), Text("Libra"), Text("Gemini") }
    /\ house \in {1, 3}
    /\ \E a \in AspectKinds, b \in AspectKinds :
          \E n \in 0..MaxRepeat, m \in 0..MaxRepeat :
              aspects = Repeat(a, n) \o Repeat(b, m)
    /\ NoAngleArgs /\ planets_data = << >>
    /\ elapsed = 0 /\ ascendant = 0

\* the seven core operations
CoreOperations ==
    { "calculate_aspects", "calculate_transits", "calculate_progressions",
      "calculate_primary_directions", "calculate_synastry",
      "calculate_arabic_parts", "calculate_planetary_strength" }

\* two calls of core operations on the same chart objects (a chart of two
\* bodies, a chart of one) and the same aspect list
InitConcurrent ==
    /\ op = "concurrent" /\ pc = "call" /\ result = None
    /\ NoService
    /\ \E l1 \in Lons, l2 \in Lons, l3 \in Lons :
          /\ planets_data = PlanetMap(<< "Sun", "Moon" >>, << l1, l2 >>)
          /\ transit_planets = PlanetMap(<< "Sun" >>, << l3 >>)
    /\ aspects \in { list \in ShortAspectLists : \A k \in DOMAIN list : list[k].is_major }
    /\ elapsed = 40 * DayParts /\ ascendant = Deg(0)
    /\ planet = "Sun" /\ sign = Text("Leo") /\ house = 1
    /\ angle_diff = 0 /\ angle1 = 0 /\ angle2 = 0
    /\ \E f \in CoreOperations, g \in CoreOperations :
          tasks = [passed |-> [planets_data    |-> planets_data,
                               transit_planets |-> transit_planets,
                               aspects         |-> aspects],
                   calls  |-> << [op |-> f, pc |-> "call", result |-> None],
                                 [op |-> g, pc |-> "call", result |-> None] >>]

(***************************************************************************)
(* Actions: the call runs and returns.  No function writes to an argument. *)
(***************************************************************************)
args == <<op, angle_diff, angle1, angle2, planets_data, transit_planets, aspects,
          elapsed, ascendant, planet, sign, house, tasks, service>>

DetermineAspect ==
    /\ pc = "call" /\ op = "_determine_aspect"
    /\ result' = determine_aspect(angle_diff)
    /\ pc' = "return"
    /\ UNCHANGED args

CalculateOrb ==
    /\ pc = "call" /\ op = "calculate_orb"
    /\ result' = calculate_orb(angle1, angle2)
    /\ pc' = "return"
    /\ UNCHANGED args

NormalizeAngle ==
    /\ pc = "call" /\ op = "normalize_angle"
    /\ result' = normalize_angle(angle1)
    /\ pc' = "return"
    /\ UNCHANGED args

CalculateAspects ==
    /\ pc = "call" /\ op = "calculate_aspects"
    /\ result' = calculate_aspects(planets_data)
    /\ pc' = "return"
    /\ UNCHANGED args

CalculateTransits ==
    /\ pc = "call" /\ op = "calculate_transits"
    /\ result' = calculate_transits(planets_data, transit_planets)
    /\ pc' = "return"
    /\ UNCHANGED args

CalculateSynastry ==
    /\ pc = "call" /\ op = "calculate_synastry"
    /\ result' = calculate_synastry(planets_data, transit_planets)
    /\ planets_data' = synastry_arguments_after(planets_data, transit_planets)[1]
    /\ transit_planets' = synastry_arguments_after(planets_data, transit_planets)[2]
    /\ pc' = "return"
    /\ UNCHANGED <<op, angle_diff, angle1, angle2, aspects,
                   elapsed, ascendant, planet, sign, house, tasks, service>>

CompatibilityScore ==
    /\ pc = "call" /\ op = "_calculate_compatibility_score"
    /\ result' = calculate_compatibility_score(aspects)
    /\ pc' = "return"
    /\ UNCHANGED args

CalculateProgressions ==
    /\ pc = "call" /\ op = "calculate_progressions"
    /\ result' = calculate_progressions(planets_data, elapsed)
    /\ pc' = "return"
    /\ UNCHANGED args

CalculatePrimaryDirections ==
    /\ pc = "call" /\ op = "calculate_primary_directions"
    /\ result' = calculate_primary_directions(planets_data, elapsed)
    /\ pc' = "return"
    /\ UNCHANGED args

CalculateArabicParts ==
    /\ pc = "call" /\ op = "calculate_arabic_parts"
    /\ result' = calculate_arabic_parts(planets_data, ascendant)
    /\ pc' = "return"
    /\ UNCHANGED args

CalculatePlanetaryStrength ==
    /\ pc = "call" /\ op = "calculate_planetary_strength"
    /\ result' = calculate_planetary_strength(planet, sign, house, aspects)
    /\ pc' = "return"
    /\ UNCHANGED args

(***************************************************************************)
(* Concurrent calls.  A call is one step: no function suspends, and the    *)
(* calls share nothing but the objects passed to them.                     *)
(***************************************************************************)
\* what core operation f returns on the charts and the list as they are now
core_result(f) ==
    CASE f = "calculate_aspects" -> calculate_aspects(planets_data)
      [] f = "calculate_transits" -> calculate_transits(planets_data, transit_planets)
      [] f = "calculate_progressions" -> calculate_progressions(planets_data, elapsed)
      [] f = "calculate_primary_directions" ->
            calculate_primary_directions(planets_data, elapsed)
      [] f = "calculate_synastry" -> calculate_synastry(planets_data, transit_planets)
      [] f = "calculate_arabic_parts" -> calculate_arabic_parts(planets_data, ascendant)
      [] f = "calculate_planetary_strength" ->
            calculate_planetary_strength(planet, sign, house, aspects)

\* call t, of operation f, runs and returns
RunTask(t, f) ==
    /\ op = "concurrent"
    /\ tasks.calls[t].op = f /\ tasks.calls[t].pc = "call"
    /\ tasks' = [tasks EXCEPT !.calls[t].pc = "return",
                              !.calls[t].result = core_result(f)]
    /\ UNCHANGED <<op, pc, result, angle_diff, angle1, angle2,
                   elapsed, ascendant, planet, sign, house, service>>

TaskCalculateAspects ==
    /\ \E t \in {1, 2} : RunTask(t, "calculate_aspects")
    /\ UNCHANGED <<planets_data, transit_planets, aspects>>

TaskCalculateTransits ==
    /\ \E t \in {1, 2} : RunTask(t, "calculate_transits")
    /\ UNCHANGED <<planets_data, transit_planets, aspects>>

TaskCalculateProgressions ==
    /\ \E t \in {1, 2} : RunTask(t, "calculate_progressions")
    /\ UNCHANGED <<planets_data, transit_planets, aspects>>

TaskCalculatePrimaryDirections ==
    /\ \E t \in {1, 2} : RunTask(t, "calculate_primary_directions")
    /\ UNCHANGED <<planets_data, transit_planets, aspects>>

TaskCalculateSynastry ==
    /\ \E t \in {1, 2} : RunTask(t, "calculate_synastry")
    /\ planets_data' = synastry_arguments_after(planets_data, transit_planets)[1]
    /\ transit_planets' = synastry_arguments_after(planets_data, transit_planets)[2]
    /\ UNCHANGED aspects

TaskCalculateArabicParts ==
    /\ \E t \in {1, 2} : RunTask(t, "calculate_arabic_parts")
    /\ UNCHANGED <<planets_data, transit_planets, aspects>>

TaskCalculatePlanetaryStrength ==
    /\ \E t \in {1, 2} : RunTask(t, "calculate_planetary_strength")
    /\ UNCHANGED <<planets_data, transit_planets, aspects>>

(***************************************************************************)
(* Specifications                                                          *)
(***************************************************************************)
InitAngle == InitDetermineAspect \/ InitCalculateOrb \/ InitNormalizeAngle

NextAngle == DetermineAspect \/ CalculateOrb \/ NormalizeAngle

\* the angle functions: _determine_aspect, calculate_orb and normalize_angle
SpecAngle == InitAngle /\ [][NextAngle]_vars

InitChart ==
    \/ InitCalculateAspects
    \/ InitCalculateTransits
    \/ InitCalculateSynastry
    \/ InitCompositePair
    \/ InitCompatibilityScore

NextChart ==
    \/ CalculateAspects
    \/ CalculateTransits
    \/ CalculateSynastry
    \/ CompatibilityScore

\* the functions over planet maps and aspect lists
SpecChart == InitChart /\ [][NextChart]_vars

InitDerived ==
    \/ InitCalculateProgressions
    \/ InitCalculatePrimaryDirections
    \/ InitCalculateArabicParts
    \/ InitStrengthDignities
    \/ InitStrengthAspects

NextDerived ==
    \/ CalculateProgressions
    \/ CalculatePrimaryDirections
    \/ CalculateArabicParts
    \/ CalculatePlanetaryStrength

\* the charts derived from a natal chart
SpecDerived == InitDerived /\ [][NextDerived]_vars

NextConcurrent ==
    \/ TaskCalculateAspects
    \/ TaskCalculateTransits
    \/ TaskCalculateProgressions
    \/ TaskCalculatePrimaryDirections
    \/ TaskCalculateSynastry
    \/ TaskCalculateArabicParts
    \/ TaskCalculatePlanetaryStrength

\* two core operations called concurrently on the same objects
SpecConcurrent == InitConcurrent /\ [][NextConcurrent]_vars

Init == InitAngle \/ InitChart

Next == NextAngle \/ NextChart

Spec == Init /\ [][Next]_vars

(***************************************************************************)
(* utils/auth.py: APIKey and APIKeyManager.  The clock counts ticks of     *)
(* 60 / WindowTicks seconds.  secrets.token_hex gives a token that no key  *)
(* holds yet and hashlib.sha256 gives no two raw keys one digest.  The     *)
(* name, the creation time and the notes of the file take no part in what  *)
(* follows, the name of the demo key excepted.                             *)
(***************************************************************************)
Day == 1440 * WindowTicks

\* rate_limit: int = 100, of generate_key and of APIKey
DefaultRateLimit == 100

\* expires_days=30, of generate_demo_key
DemoExpiresDays == 30

\* class APIKeyPermission(Enum): the value of each member
APIKeyPermission == [READ |-> "read", WRITE |-> "write", ADMIN |-> "admin"]

\* APIKeyPermission(value)
member_of(value) ==
    CHOOSE m \in DOMAIN APIKeyPermission : APIKeyPermission[m] = value

\* hashlib.sha256(raw_key.encode()).hexdigest()
hash_key(raw_key) == [sha256 |-> raw_key]

\* datetime.now() + timedelta(days=expires_days)
expiry(t, expires_days) == [at |-> t + expires_days * Day]

is_expired(key, t) ==
    IF key.expires_at = None THEN FALSE ELSE t > key.expires_at.at

\* a key that passes whatever its usage_count
can_make_request_unlimited(key, t) == key.is_active /\ ~is_expired(key, t)

can_make_request(key, t) ==
    key.is_active /\ ~is_expired(key, t) /\ key.usage_count < key.rate_limit

\* usage_count += 2
increment_usage_twice(key) == [key EXCEPT !.usage_count = @ + 2]

increment_usage(key) == [key EXCEPT !.usage_count = @ + 1]

\* d[key.key_id] = key on a dict: in place if the id is there, else last
dict_set(d, key) ==
    IF \E i \in DOMAIN d : d[i].key_id = key.key_id
    THEN [i \in DOMAIN d |-> IF d[i].key_id = key.key_id THEN key ELSE d[i]]
    ELSE Append(d, key)

\* key_id in self.keys
has_key(d, key_id) == \E i \in DOMAIN d : d[i].key_id = key_id

\* yaml.dump of key.dict(): each member of the Enum is written as an
\* object of python, under a tag; a member written by hand is its value
dumped(key) ==
    [key EXCEPT !.permissions =
        [i \in DOMAIN @ |-> [tag   |-> "python/object/apply:APIKeyPermission",
                             value |-> APIKeyPermission[@[i]]]]]

\* the file _save_keys writes
save_keys(d) == [api_keys |-> [i \in DOMAIN d |-> dumped(d[i])]]

\* the file holds a tag of python, for which yaml.safe_load has no constructor
is_tagged(file) ==
    \E i \in DOMAIN file.api_keys :
        \E j \in DOMAIN file.api_keys[i].permissions :
            "tag" \in DOMAIN file.api_keys[i].permissions[j]

\* APIKey(**key_data) with is_active left at its default
APIKey_active(key_data) ==
    [key_data EXCEPT !.is_active = TRUE,
                     !.permissions =
                         [i \in DOMAIN @ |->
                             member_of(IF "tag" \in DOMAIN @[i] THEN @[i].value
                                       ELSE @[i].plain)]]

\* APIKey(**key_data): the values of the permissions become members
APIKey(key_data) ==
    [key_data EXCEPT !.permissions =
        [i \in DOMAIN @ |->
            member_of(IF "tag" \in DOMAIN @[i] THEN @[i].value ELSE @[i].plain)]]

ids(d) == { d[i].key_id : i \in DOMAIN d }

\* secrets.token_hex: the first token that no key holds
token_hex(used) ==
    CHOOSE n \in 1..(Cardinality(used) + 1) :
        n \notin used /\ \A m \in 1..(n - 1) : m \in used

\* generate_key: the key is stored, the file written, and the raw key and
\* the key are returned as a pair; the raw key is the token of the key
generate_key(d, name, permissions, expires_days, rate_limit, t) ==
    LET key_id  == token_hex(ids(d))
        raw_key == key_id
        api_key == [key_id      |-> key_id,
                    name        |-> name,
                    key_hash    |-> hash_key(raw_key),
                    permissions |-> permissions,
                    expires_at  |-> IF expires_days # 0 THEN expiry(t, expires_days)
                                    ELSE None,
                    is_active   |-> TRUE,
                    rate_limit  |-> rate_limit,
                    usage_count |-> 0]
    IN  [keys     |-> dict_set(d, api_key),
         key_file |-> save_keys(dict_set(d, api_key)),
         raw_key  |-> raw_key,
         api_key  |-> api_key]

\* _create_default_config: generate_key stores the demo key and writes the
\* file; demo_key is the pair generate_key returns, and demo_key.dict()
\* raises AttributeError
create_default_config(d, t) ==
    LET demo_key == generate_key(d, "demo_key", << "READ" >>, 0, DefaultRateLimit, t)
    IN  [keys |-> demo_key.keys, key_file |-> demo_key.key_file,
         raised |-> "AttributeError"]

RECURSIVE load_each(_, _, _)
load_each(d, api_keys, i) ==
    IF i > Len(api_keys) THEN d
    ELSE load_each(dict_set(d, APIKey(api_keys[i])), api_keys, i + 1)

\* _load_keys: no file is FileNotFoundError, a file that safe_load does not
\* read is another exception, and both handlers create the default
\* configuration; self.keys is not emptied before the keys read are stored
load_keys(d, file, readable, t) ==
    IF file = None THEN create_default_config(d, t)
    ELSE IF is_tagged(file) /\ ~readable THEN create_default_config(d, t)
    ELSE [keys |-> load_each(d, file.api_keys, 1), key_file |-> file, raised |-> ""]

\* verify_key: the first key with the hash decides
verify_key(d, raw_key, t) ==
    LET key_hash == hash_key(raw_key)
        matches  == { i \in DOMAIN d : d[i].key_hash = key_hash }
    IN  IF matches = {} THEN [keys |-> d, saved |-> FALSE, returned |-> None]
        ELSE LET i   == CHOOSE m \in matches : \A n \in matches : m <= n
                 key == d[i]
             IN  IF can_make_request(key, t)
                 THEN [keys     |-> [d EXCEPT ![i] = increment_usage(key)],
                       saved    |-> TRUE,
                       returned |-> increment_usage(key)]
                 ELSE [keys |-> d, saved |-> FALSE, returned |-> None]

revoke_key(d, key_id) ==
    IF has_key(d, key_id)
    THEN [keys     |-> [i \in DOMAIN d |->
                           IF d[i].key_id = key_id
                           THEN [d[i] EXCEPT !.is_active = FALSE] ELSE d[i]],
          saved    |-> TRUE,
          returned |-> TRUE]
    ELSE [keys |-> d, saved |-> FALSE, returned |-> FALSE]

(***************************************************************************)
(* The key manager as a state machine: it is constructed over the config   *)
(* file, then keys are generated, verified and revoked, the file is read   *)
(* again, and days pass.                                                   *)
(***************************************************************************)
\* a key of a config file written by hand: active, never expiring, unused
written_key(rate_limit) ==
    [key_id      |-> 1,
     name        |-> "first",
     key_hash    |-> hash_key(1),
     permissions |-> << [plain |-> "read"] >>,
     expires_at  |-> None,
     is_active   |-> TRUE,
     rate_limit  |-> rate_limit,
     usage_count |-> 0]

\* the config file at start: none, an empty one, one written by hand
ConfigFiles ==
    { None, [api_keys |-> << >>] }
        \cup { [api_keys |-> << written_key(n) >>] : n \in 1..MaxRate }

\* name, rate_limit and expires_days of generate_key; None is 0 days
KeyNames == { "first", "second" }

RateLimits == (-1)..MaxRate

ExpiresDays == { 0, DemoExpiresDays }

names(d) == { d[i].name : i \in DOMAIN d }

\* the demo keys held
demo_keys(d) == { i \in DOMAIN d : d[i].name = "demo_key" }

\* the raw keys a caller can present: one that was never issued, and those
\* of the keys held; the raw key of the demo key was not given to anyone
RawKeys(d) == { 0 } \cup { d[i].key_id : i \in { j \in DOMAIN d : d[j].name # "demo_key" } }

\* the key ids revoke_key is called with: one that no key has, and those of
\* the keys held; the id of the demo key was not printed
KeyIds(d) == { 0 } \cup { d[i].key_id : i \in { j \in DOMAIN d : d[j].name # "demo_key" } }

\* the functions of the core take no part
NoCoreArgs ==
    /\ NoAngleArgs /\ NoDerivedArgs
    /\ planets_data = << >> /\ aspects = << >> /\ tasks = << >>

core == <<angle_diff, angle1, angle2, planets_data, transit_planets, aspects,
          elapsed, ascendant, planet, sign, house, tasks>>

InitAPIKeyManager ==
    /\ op = "APIKeyManager" /\ pc = "call" /\ result = None
    /\ NoCoreArgs
    /\ keys = << >> /\ key_file \in ConfigFiles /\ now = 0
    /\ max_requests_per_minute = 0 /\ requests = << >>
    /\ request = None /\ forwarded = << >> /\ swe = << >>

\* APIKeyManager(): self.keys = {}, then _load_keys; an exception leaves
\* the constructor, and no manager is bound
Construct ==
    /\ pc = "call" /\ op = "APIKeyManager"
    /\ LET loaded == load_keys(<< >>, key_file, TRUE, now)
       IN  /\ keys' = loaded.keys
           /\ key_file' = loaded.key_file
           /\ pc' = IF loaded.raised = "" THEN "serving" ELSE "raised"
           /\ result' = [raised |-> loaded.raised]
    /\ request' = [config_path |-> key_file]
    /\ UNCHANGED <<op, core, now, limiter, forwarded, swe>>

\* generate_key, once for each name
GenerateKey ==
    /\ pc = "serving"
    /\ \E name \in KeyNames \ names(keys) :
       \E rate_limit \in RateLimits, expires_days \in ExpiresDays :
          LET made == generate_key(keys, name, << "READ" >>, expires_days,
                                   rate_limit, now)
          IN  /\ keys' = made.keys
              /\ key_file' = made.key_file
              /\ result' = [raw_key |-> made.raw_key, api_key |-> made.api_key]
              /\ request' = [name |-> name, expires_days |-> expires_days,
                             rate_limit |-> rate_limit]
    /\ op' = "generate_key"
    /\ UNCHANGED <<pc, core, now, limiter, forwarded, swe>>

VerifyKey ==
    /\ pc = "serving"
    /\ \E raw_key \in RawKeys(keys) :
          LET done == verify_key(keys, raw_key, now)
          IN  /\ keys' = done.keys
              /\ key_file' = IF done.saved THEN save_keys(done.keys) ELSE key_file
              /\ result' = done.returned
              /\ request' = [raw_key |-> raw_key]
    /\ op' = "verify_key"
    /\ UNCHANGED <<pc, core, now, limiter, forwarded, swe>>

RevokeKey ==
    /\ pc = "serving"
    /\ \E key_id \in KeyIds(keys) :
          LET done == revoke_key(keys, key_id)
          IN  /\ keys' = done.keys
              /\ key_file' = IF done.saved THEN save_keys(done.keys) ELSE key_file
              /\ result' = done.returned
              /\ request' = [key_id |-> key_id]
    /\ op' = "revoke_key"
    /\ UNCHANGED <<pc, core, now, limiter, forwarded, swe>>

\* _load_keys on the manager: the file is read again; what safe_load does
\* with a file that holds tags is left open
LoadKeys ==
    /\ pc = "serving"
    /\ \E readable \in BOOLEAN :
          /\ (is_tagged(key_file) /\ ~readable) =>
                Cardinality(demo_keys(keys)) < MaxDemoKeys
          /\ LET loaded == load_keys(keys, key_file, readable, now)
             IN  /\ keys' = loaded.keys
                 /\ key_file' = loaded.key_file
                 /\ result' = [raised |-> loaded.raised]
    /\ request' = None
    /\ op' = "_load_keys"
    /\ UNCHANGED <<pc, core, now, limiter, forwarded, swe>>

\* the days of a key with an expiry pass, and one more
PassDays ==
    /\ pc = "serving" /\ now < DemoExpiresDays * Day
    /\ now' = now + (DemoExpiresDays + 1) * Day
    /\ op' = "sleep" /\ result' = None /\ request' = None
    /\ UNCHANGED <<pc, core, keys, key_file, limiter, forwarded, swe>>

NextAuth ==
    \/ Construct
    \/ GenerateKey
    \/ VerifyKey
    \/ RevokeKey
    \/ PassDays

\* the key manager: construction, generate_key, verify_key, revoke_key
SpecAuth == InitAPIKeyManager /\ [][NextAuth]_vars

(***************************************************************************)
(* utils/middleware.py: AuthenticationMiddleware.  A request is its path   *)
(* and the API key it carries, << >> when it carries none; a response is   *)
(* its status code and its message, that of the application being 200.     *)
(***************************************************************************)
excluded_paths == { "/docs", "/redoc", "/openapi.json", "/health" }

JSONResponse(status_code, message) == [status_code |-> status_code, message |-> message]

\* what call_next returns
call_next == JSONResponse(200, "")

\* an exception that leaves dispatch
propagated(exception) == JSONResponse(500, exception)

\* the message of the 429 response
error_msg(key, t) ==
    IF is_expired(key, t) THEN "API key has expired"
    ELSE IF ~key.is_active THEN "API key is deactivated"
    ELSE "Rate limit exceeded"

\* dispatch: the keys are read again from the file, the key is verified,
\* which counts the request, and the key verified is then asked again
\* whether it can make a request
dispatch(d, file, req, readable, t) ==
    IF req.path \in excluded_paths
    THEN [keys |-> d, key_file |-> file, response |-> call_next]
    ELSE IF req.api_key = << >>
    THEN [keys |-> d, key_file |-> file,
          response |-> JSONResponse(401, "API key required")]
    ELSE LET loaded == load_keys(d, file, readable, t)
         IN  IF loaded.raised # ""
             THEN [keys |-> loaded.keys, key_file |-> loaded.key_file,
                   response |-> propagated(loaded.raised)]
             ELSE LET done == verify_key(loaded.keys, req.api_key[1], t)
                      authenticated_key == done.returned
                      written == IF done.saved THEN save_keys(done.keys)
                                 ELSE loaded.key_file
                  IN  [keys     |-> done.keys,
                       key_file |-> written,
                       response |->
                           IF authenticated_key = None
                           THEN JSONResponse(401, "Invalid API key")
                           ELSE IF ~can_make_request(authenticated_key, t)
                           THEN JSONResponse(429, error_msg(authenticated_key, t))
                           ELSE call_next]

\* generate_key with the largest rate limit, once for each name
IssueKey ==
    /\ pc = "serving"
    /\ \E name \in KeyNames \ names(keys), expires_days \in ExpiresDays :
          LET made == generate_key(keys, name, << "READ" >>, expires_days,
                                   MaxRate, now)
          IN  /\ keys' = made.keys
              /\ key_file' = made.key_file
              /\ result' = [raw_key |-> made.raw_key, api_key |-> made.api_key]
              /\ request' = [name |-> name, expires_days |-> expires_days,
                             rate_limit |-> MaxRate]
    /\ op' = "generate_key"
    /\ UNCHANGED <<pc, core, now, limiter, forwarded, swe>>

Paths == { "/health", "/planets" }

\* a request arrives and AuthenticationMiddleware.dispatch answers it
Dispatch ==
    /\ pc = "serving"
    /\ \E path \in Paths,
          api_key \in { << >> } \cup { << raw_key >> : raw_key \in RawKeys(keys) },
          readable \in BOOLEAN :
          /\ (is_tagged(key_file) /\ ~readable) =>
                Cardinality(demo_keys(keys)) < MaxDemoKeys
          /\ LET req  == [path |-> path, api_key |-> api_key]
                 done == dispatch(keys, key_file, req, readable, now)
             IN  /\ keys' = done.keys
                 /\ key_file' = done.key_file
                 /\ result' = done.response
                 /\ request' = req
    /\ op' = "dispatch"
    /\ UNCHANGED <<pc, core, now, limiter, forwarded, swe>>

NextReload ==
    \/ Construct
    \/ IssueKey
    \/ VerifyKey
    \/ RevokeKey
    \/ LoadKeys

\* the key manager with its config file read again between the calls
SpecReload == InitAPIKeyManager /\ [][NextReload]_vars

NextGateway ==
    \/ Construct
    \/ IssueKey
    \/ RevokeKey
    \/ Dispatch
    \/ PassDays

\* the key manager behind AuthenticationMiddleware
SpecGateway == InitAPIKeyManager /\ [][NextGateway]_vars

(***************************************************************************)
(* utils/middleware.py: RateLimitMiddleware.  A request is the host of its *)
(* connection and its X-Forwarded-For and X-Real-IP headers, << >> for a   *)
(* header it does not carry.  dispatch has no await before call_next, so   *)
(* on the event loop it reads, filters and appends in one step, and the    *)
(* requests of one client and of others interleave as whole steps.         *)
(***************************************************************************)
\* _get_client_ip
get_client_ip(req) ==
    IF req.x_forwarded_for # << >> THEN req.x_forwarded_for[1]
    ELSE IF req.x_real_ip # << >> THEN req.x_real_ip[1]
    ELSE req.host

\* self.requests[client_ip], after 'if client_ip not in self.requests'
times_of(d, client_ip) == IF client_ip \in DOMAIN d THEN d[client_ip] ELSE << >>

\* the times kept when only those of the last 30 seconds are
recent_half(times, current_time) ==
    SelectSeq(times, LAMBDA req_time : 2 * (current_time - req_time) < WindowTicks)

\* [req_time for req_time in ... if current_time - req_time < 60]
recent(times, current_time) ==
    SelectSeq(times, LAMBDA req_time : current_time - req_time < WindowTicks)

\* d[client_ip] = times
dict_put(d, client_ip, times) ==
    [ip \in DOMAIN d \cup { client_ip } |-> IF ip = client_ip THEN times ELSE d[ip]]

\* RateLimitMiddleware.dispatch
rate_limit_dispatch(d, max_per_minute, req, current_time) ==
    LET client_ip == get_client_ip(req)
        kept      == recent(times_of(d, client_ip), current_time)
    IN  IF Len(kept) >= max_per_minute
        THEN [requests  |-> dict_put(d, client_ip, kept),
              call_next |-> FALSE,
              response  |-> JSONResponse(429, "Too many requests")]
        ELSE [requests  |-> dict_put(d, client_ip, Append(kept, current_time)),
              call_next |-> TRUE,
              response  |-> call_next]

ClientIPs == { "10.0.0.1", "10.0.0.2" }

\* a header is absent or names the second address
Headers == { << >>, << "10.0.0.2" >> }

InitRateLimitMiddleware ==
    /\ op = "RateLimitMiddleware" /\ pc = "serving" /\ result = None
    /\ NoCoreArgs
    /\ keys = << >> /\ key_file = None /\ now = 0
    /\ max_requests_per_minute \in 1..MaxPerMinute /\ requests = << >>
    /\ request = None /\ forwarded = << >> /\ swe = << >>

\* a request arrives and RateLimitMiddleware.dispatch answers it or passes
\* it on
RateLimitDispatch ==
    /\ pc = "serving" /\ op \in { "RateLimitMiddleware", "rate_limit_dispatch", "time" }
    /\ \E host \in ClientIPs, x_forwarded_for \in Headers, x_real_ip \in Headers :
          LET req  == [host |-> host, x_forwarded_for |-> x_forwarded_for,
                       x_real_ip |-> x_real_ip]
              done == rate_limit_dispatch(requests, max_requests_per_minute, req, now)
          IN  /\ requests' = done.requests
              /\ result' = done.response
              /\ request' = req
              /\ forwarded' =
                    IF done.call_next
                    THEN dict_put(forwarded, get_client_ip(req),
                                  Append(times_of(forwarded, get_client_ip(req)), now))
                    ELSE forwarded
    /\ op' = "rate_limit_dispatch"
    /\ UNCHANGED <<pc, core, keys, key_file, now, max_requests_per_minute, swe>>

\* time.time() moves on
Tick ==
    /\ pc = "serving" /\ op \in { "RateLimitMiddleware", "rate_limit_dispatch", "time" }
    /\ now <= WindowTicks
    /\ now' = now + 1
    /\ op' = "time" /\ result' = None /\ request' = None
    /\ UNCHANGED <<pc, core, keys, key_file, limiter, forwarded, swe>>

NextRateLimit == RateLimitDispatch \/ Tick

\* RateLimitMiddleware and the clock
SpecRateLimit == InitRateLimitMiddleware /\ [][NextRateLimit]_vars

(***************************************************************************)
(* services/ephem.py: the planets of a moment, looked up body by body in   *)
(* the ephemeris library, and the /transits endpoint of app.py that passes *)
(* them to calculate_transits.  The library is what it does at the moment  *)
(* asked for: julday raises or not, calc_ut raises for some bodies and     *)
(* gives the others a longitude.  The longitudes are on the grid, where    *)
(* round(longitude, 6) changes nothing; the sign, the degrees in the sign  *)
(* and the illumination of a body are left out, and so is the cache.       *)
(***************************************************************************)
MAIN_PLANETS ==
    << "Sun", "Moon", "Mercury", "Venus", "Mars", "Jupiter", "Saturn", "Uranus",
       "Neptune", "Pluto" >>

\* swe.calc_ut(jd, planet_id): result[0][0] and result[0][3], or an exception
calc_ut(library, k) ==
    [raises    |-> MAIN_PLANETS[k] \in library.failing,
     longitude |-> (library.first + (k - 1) * Deg(30)) % Deg(360),
     speed     |-> IF MAIN_PLANETS[k] = "Mercury" THEN -1 ELSE 1]

\* _calculate_planet_position: any exception of the lookup is caught and
\* 0.0, 0.0, False returned in place of a position
calculate_planet_position(library, k) ==
    LET looked == calc_ut(library, k)
    IN  IF looked.raises
        THEN [longitude |-> 0, speed |-> 0, retrograde |-> FALSE]
        ELSE [longitude  |-> looked.longitude,
              speed      |-> looked.speed,
              retrograde |-> looked.speed < 0]

\* _calculate_planets_sync: an exception of julday is returned under
\* "error"; a body whose lookup failed is in the planets like the others
calculate_planets_sync(library) ==
    IF library.julday_raises
    THEN [error |-> "julday", planets |-> << >>]
    ELSE [error   |-> "",
          planets |-> [k \in DOMAIN MAIN_PLANETS |->
                          [name       |-> MAIN_PLANETS[k],
                           longitude  |-> calculate_planet_position(library, k).longitude,
                           retrograde |-> calculate_planet_position(library, k).retrograde]]]

\* raise HTTPException(status_code=500, detail=...)
HTTPException(status_code, detail) == [status_code |-> status_code, message |-> detail]

\* the ephemeris at the moment asked for: at most one body fails
Libraries ==
    { [julday_raises |-> j, failing |-> f, first |-> l] :
        j \in BOOLEAN,
        f \in { {} } \cup { { MAIN_PLANETS[k] } : k \in DOMAIN MAIN_PLANETS },
        l \in { Deg(15), Deg(100) } }

\* a request of /transits: the natal chart is there, the planets of the
\* transit date are to be looked up
InitTransits ==
    /\ op = "transits" /\ pc = "call" /\ result = None
    /\ tasks = << >>
    /\ NoDerivedArgs
    /\ angle_diff = 0 /\ angle1 = 0 /\ angle2 = 0 /\ aspects = << >>
    /\ \E l1 \in Lons : planets_data = PlanetMap(<< "Sun" >>, << l1 >>)
    /\ transit_planets = << >>
    /\ keys = << >> /\ key_file = None /\ now = 0
    /\ max_requests_per_minute = 0 /\ requests = << >>
    /\ request = None /\ forwarded = << >>
    /\ swe \in Libraries

\* the endpoint: get_planets, 500 if it returned an error, else
\* calculate_transits on the planets it returned
Transits ==
    /\ pc = "call" /\ op = "transits"
    /\ LET transit_planets_result == calculate_planets_sync(swe)
       IN  IF transit_planets_result.error # ""
           THEN /\ result' = HTTPException(500, transit_planets_result.error)
                /\ pc' = "raised"
                /\ UNCHANGED transit_planets
           ELSE /\ transit_planets' = transit_planets_result.planets
                /\ result' = calculate_transits(planets_data,
                                                transit_planets_result.planets)
                /\ pc' = "return"
    /\ UNCHANGED <<op, angle_diff, angle1, angle2, planets_data, aspects,
                   elapsed, ascendant, planet, sign, house, tasks, service>>

\* the lookup of the planets and the endpoint that uses them
SpecEphemeris == InitTransits /\ [][Transits]_vars

(***************************************************************************)
(* Vocabulary of the properties, written without the operators above       *)
(***************************************************************************)
Returned(f) == op = f /\ pc = "return"

\* every aspect definition, majors before minors, each in declaration order
AllDefinitions == MAJOR_ASPECTS \o MINOR_ASPECTS

\* the definitions whose tolerance window holds the separation sep
Admitting(sep) ==
    { k \in 1..Len(AllDefinitions) :
        /\ sep >= AllDefinitions[k].angle - AllDefinitions[k].orb
        /\ sep <= AllDefinitions[k].angle + AllDefinitions[k].orb }

\* the name of the first definition, by precedence, that admits sep
FirstAdmittingName(sep) ==
    IF Admitting(sep) = {} THEN "None"
    ELSE AllDefinitions[CHOOSE k \in Admitting(sep) :
                            \A m \in Admitting(sep) : k <= m].name

\* the rotation, at most half a turn, that carries longitude a onto b
Separation(a, b) ==
    LET forward == (b - a) % Deg(360)
    IN  IF forward <= Deg(180) THEN forward ELSE Deg(360) - forward

Reverse(s) == [i \in 1..Len(s) |-> s[Len(s) + 1 - i]]

LongitudeOf(planets, name) ==
    planets[CHOOSE j \in 1..Len(planets) : planets[j].name = name].longitude

SortedByOrb(list) == \A i \in 1..(Len(list) - 1) : list[i].orb <= list[i + 1].orb

(***************************************************************************)
(* C1                                                                      *)
(***************************************************************************)
\* C1: _determine_aspect returns a definition exactly when the separation
\* lies within that definition's tolerance of its exact angle, the boundary
\* included, and reports the distance to the exact angle as the orb:
\* 0 is Conjunction with orb 0, 8 is Conjunction, 172 is Opposition with
\* orb 8, 180 is Opposition with orb 0, and the first grid point past 8
\* is no aspect.
C1_ClassifyWithinTolerance ==
    Returned("_determine_aspect") =>
        /\ \A k \in 1..Len(AllDefinitions) :
              LET d == AllDefinitions[k]
              IN  /\ (result.aspect = d.name) <=> (Abs(angle_diff - d.angle) <= d.orb)
                  /\ (result.aspect = d.name) => result.orb = Abs(angle_diff - d.angle)
        /\ (result = None) <=> (Admitting(angle_diff) = {})
        /\ (angle_diff = Deg(0)) => (result.aspect = "Conjunction" /\ result.orb = 0)
        /\ (angle_diff = Deg(8)) => (result.aspect = "Conjunction" /\ result.orb = Deg(8))
        /\ (angle_diff = Deg(8) + 1) => (result = None)
        /\ (angle_diff = Deg(172)) => (result.aspect = "Opposition" /\ result.orb = Deg(8))
        /\ (angle_diff = Deg(180)) => (result.aspect = "Opposition" /\ result.orb = 0)

\* a separation on the edge of the Conjunction window has been classified
C1_Witness ==
    /\ Returned("_determine_aspect")
    /\ angle_diff = Deg(8)
    /\ result.aspect = "Conjunction"
    /\ result.orb = Deg(8)

(***************************************************************************)
(* C2                                                                      *)
(***************************************************************************)
\* C2: no separation in [0,180] lies in the tolerance windows of two
\* definitions of the declared tables, so _determine_aspect returns the
\* same whatever the order of the tables (each table reversed, the minor
\* table scanned first), and what it returns is the first definition, by
\* declaration order with majors before minors, that admits the separation.
C2_WindowsDisjoint ==
    Returned("_determine_aspect") =>
        /\ Cardinality(Admitting(angle_diff)) <= 1
        /\ result = determine_aspect_in(Reverse(MAJOR_ASPECTS), Reverse(MINOR_ASPECTS),
                                        angle_diff)
        /\ result.aspect =
              determine_aspect_in(MINOR_ASPECTS, MAJOR_ASPECTS, angle_diff).aspect
        /\ result.aspect = FirstAdmittingName(angle_diff)

\* the upper edge of the Biquintile window, one degree below the lower edge
\* of the Quincunx window: the two windows that lie closest
C2_Witness ==
    /\ Returned("_determine_aspect")
    /\ angle_diff = Deg(146)
    /\ result.aspect = "Biquintile"
    /\ Admitting(angle_diff + Deg(1)) # {}
    /\ Admitting(angle_diff + 1) = {}

(***************************************************************************)
(* C3                                                                      *)
(***************************************************************************)
\* C3: for all angles, those outside [0,360) included, the separation that
\* calculate_orb returns, and the one the inline step of calculate_aspects,
\* calculate_transits and calculate_synastry computes, is at least 0 and at
\* most 180.
C3_SeparationWithinHalfTurn ==
    Returned("calculate_orb") =>
        /\ 0 <= result /\ result <= Deg(180)
        /\ 0 <= inline_diff(angle1, angle2) /\ inline_diff(angle1, angle2) <= Deg(180)

(***************************************************************************)
(* C4                                                                      *)
(***************************************************************************)
\* the pairs of an aspect list, without the roles of the two planets
PairFacts(list) ==
    { [pair       |-> {list[i].planet1, list[i].planet2},
       aspect     |-> list[i].aspect,
       orb        |-> list[i].orb,
       angle_diff |-> list[i].angle_diff] : i \in 1..Len(list) }

\* C4: calculate_orb(a,b) equals calculate_orb(b,a), and calculate_aspects
\* on the planets in the opposite order, which swaps the two planets of
\* every pair, finds the same separation, aspect and orb for each pair.
C4_SeparationCommutes ==
    /\ Returned("calculate_orb") => result = calculate_orb(angle2, angle1)
    /\ Returned("calculate_aspects") =>
          PairFacts(result) = PairFacts(calculate_aspects(Reverse(planets_data)))

\* calculate_orb has returned for two different angles more than half a
\* turn apart
C4_Witness ==
    /\ Returned("calculate_orb")
    /\ angle1 - angle2 > Deg(180)
    /\ angle1 - angle2 < Deg(360)
    /\ result = Deg(360) - (angle1 - angle2)

(***************************************************************************)
(* C5                                                                      *)
(***************************************************************************)
\* the definition named by a match lies within tolerance of the separation
\* sep, and the match reports its distance to the exact angle as the orb
OrbOfNamedAspect(match, sep) ==
    \E k \in 1..Len(AllDefinitions) :
        /\ AllDefinitions[k].name = match.aspect
        /\ match.orb = Abs(sep - AllDefinitions[k].angle)
        /\ match.orb <= AllDefinitions[k].orb

\* C5: every match returned by calculate_aspects, calculate_transits and
\* calculate_synastry has orb = |separation of the two longitudes - exact
\* angle of the aspect it names| and orb <= the tolerance of that aspect.
C5_OrbWithinTolerance ==
    /\ Returned("calculate_aspects") =>
          \A i \in 1..Len(result) :
              OrbOfNamedAspect(result[i],
                  Separation(LongitudeOf(planets_data, result[i].planet1),
                             LongitudeOf(planets_data, result[i].planet2)))
    /\ Returned("calculate_transits") =>
          \A i \in 1..Len(result) :
              OrbOfNamedAspect(result[i],
                  Separation(LongitudeOf(transit_planets, result[i].transit_planet),
                             LongitudeOf(planets_data, result[i].natal_planet)))
    /\ Returned("calculate_synastry") =>
          \A i \in 1..Len(result.aspects) :
              OrbOfNamedAspect(result.aspects[i],
                  Separation(LongitudeOf(planets_data, result.aspects[i].person1_planet),
                             LongitudeOf(transit_planets, result.aspects[i].person2_planet)))

\* a cross-chart match across the 0/360 seam, 8 degrees from an exact
\* Opposition: its orb is the whole tolerance
C5_Witness ==
    /\ Returned("calculate_synastry")
    /\ \E i \in 1..Len(result.aspects) :
          /\ result.aspects[i].aspect = "Opposition"
          /\ result.aspects[i].orb = Deg(8)
          /\ Abs(LongitudeOf(planets_data, result.aspects[i].person1_planet)
                 - LongitudeOf(transit_planets, result.aspects[i].person2_planet))
                > Deg(180)

(***************************************************************************)
(* C6                                                                      *)
(***************************************************************************)
\* C6: calculate_aspects returns at most one match for an unordered pair of
\* distinct planets, never a planet with itself, and the aspect of a match
\* is the first definition by precedence that admits the pair's separation.
C6_OneMatchPerPair ==
    Returned("calculate_aspects") =>
        /\ \A i \in 1..Len(result) :
              /\ result[i].planet1 # result[i].planet2
              /\ result[i].aspect =
                    FirstAdmittingName(
                        Separation(LongitudeOf(planets_data, result[i].planet1),
                                   LongitudeOf(planets_data, result[i].planet2)))
        /\ \A i, j \in 1..Len(result) :
              i # j => {result[i].planet1, result[i].planet2}
                          # {result[j].planet1, result[j].planet2}

\* three planets of which every pair is in aspect: three matches
C6_Witness ==
    /\ Returned("calculate_aspects")
    /\ Len(planets_data) = 3
    /\ Len(result) = 3

(***************************************************************************)
(* C7                                                                      *)
(***************************************************************************)
\* C7: the lists calculate_aspects and calculate_transits return are in
\* ascending order of orb: no entry has a larger orb than the next one.
C7_SortedByOrb ==
    (Returned("calculate_aspects") \/ Returned("calculate_transits")) =>
        SortedByOrb(result)

\* transits of which the loops met a wider match before a tighter one
C7_Witness ==
    /\ Returned("calculate_transits")
    /\ Len(result) >= 3
    /\ ~SortedByOrb(transits_outer(planets_data, transit_planets, 1))
    /\ result[1].orb < result[Len(result)].orb

(***************************************************************************)
(* C8                                                                      *)
(***************************************************************************)
\* C8: synastry["aspects"] holds a match for every (person1 planet, person2
\* planet) pair whose separation classifies to an aspect, and is in
\* ascending order of orb.
C8_SynastryAspectsSorted ==
    Returned("calculate_synastry") =>
        /\ \A i \in 1..Len(planets_data), j \in 1..Len(transit_planets) :
              LET name == FirstAdmittingName(
                              Separation(planets_data[i].longitude,
                                         transit_planets[j].longitude))
              IN  name # "None" =>
                      \E k \in 1..Len(result.aspects) :
                          /\ result.aspects[k].person1_planet = planets_data[i].name
                          /\ result.aspects[k].person2_planet = transit_planets[j].name
                          /\ result.aspects[k].aspect = name
        /\ SortedByOrb(result.aspects)

(***************************************************************************)
(* C9                                                                      *)
(***************************************************************************)
\* C9: calculate_transits evaluates every (transiting planet, natal planet)
\* ordered pair, a body against its own natal position included: each pair
\* whose separation classifies to an aspect is in the result once, and a
\* body at its natal longitude is a Conjunction with orb 0.
C9_SelfTransitsIncluded ==
    Returned("calculate_transits") =>
        \A i \in 1..Len(transit_planets), j \in 1..Len(planets_data) :
            LET name == FirstAdmittingName(
                            Separation(transit_planets[i].longitude,
                                       planets_data[j].longitude))
                hits == { k \in 1..Len(result) :
                            /\ result[k].transit_planet = transit_planets[i].name
                            /\ result[k].natal_planet = planets_data[j].name }
            IN  /\ name # "None" =>
                      /\ Cardinality(hits) = 1
                      /\ \A k \in hits : result[k].aspect = name
                /\ name = "None" => hits = {}
                /\ transit_planets[i].longitude = planets_data[j].longitude =>
                      \A k \in hits : result[k].aspect = "Conjunction" /\ result[k].orb = 0

\* a body back at its own natal longitude, and in aspect to its own natal
\* position from elsewhere, are both reported
C9_Witness ==
    /\ Returned("calculate_transits")
    /\ \E k \in 1..Len(result) :
          /\ result[k].transit_planet = result[k].natal_planet
          /\ result[k].aspect = "Conjunction"
          /\ result[k].orb = 0
    /\ \E k \in 1..Len(result) :
          /\ result[k].transit_planet = result[k].natal_planet
          /\ result[k].aspect # "Conjunction"

(***************************************************************************)
(* C10                                                                     *)
(***************************************************************************)
\* the weight the score gives one aspect
ScoreWeight(aspect) ==
    CASE aspect.is_major /\ aspect.aspect \in {"Trine", "Sextile"}     -> 3
      [] aspect.is_major /\ aspect.aspect = "Conjunction"              -> 2
      [] aspect.is_major /\ aspect.aspect \in {"Square", "Opposition"} -> 1
      [] ~aspect.is_major                                              -> 1

RECURSIVE ScoreWeightSum(_)
ScoreWeightSum(list) ==
    IF list = << >> THEN 0
    ELSE ScoreWeight(list[1]) + ScoreWeightSum(SubSeq(list, 2, Len(list)))

\* C10 as stated: the score of a non-empty aspect list is the weight sum
\* divided by 3 x count, scaled to 0-100 and rounded to the nearest integer
\* (a tie either way), then clamped to [0,100].
C10_ScoreRounded ==
    (Returned("_calculate_compatibility_score") /\ aspects # << >>) =>
        /\ 0 <= result /\ result <= 100
        /\ 2 * Abs(result * 3 * Len(aspects) - 100 * ScoreWeightSum(aspects))
              <= 3 * Len(aspects)

\* C10 amended: the score of a non-empty aspect list is the weight sum
\* divided by 3 x count, scaled to 0-100 and truncated to the integer below
\* (int(), not rounding to the nearest), then clamped to [0,100].
C10_ScoreTruncated ==
    (Returned("_calculate_compatibility_score") /\ aspects # << >>) =>
        /\ 0 <= result /\ result <= 100
        /\ result * 3 * Len(aspects) <= 100 * ScoreWeightSum(aspects)
        /\ 100 * ScoreWeightSum(aspects) < (result + 1) * 3 * Len(aspects)

\* one major Conjunction: 2/3 of 100 is 66.67, and 66 is returned
C10_Witness ==
    /\ Returned("_calculate_compatibility_score")
    /\ aspects = << [aspect |-> "Conjunction", is_major |-> TRUE] >>
    /\ result = 66

(***************************************************************************)
(* C11                                                                     *)
(***************************************************************************)
\* C11: the compatibility score of an empty aspect list is 0 (nothing is
\* divided by the zero maximum), and calculate_synastry on two planet sets
\* with no aspect between them returns compatibility_score 0.
C11_EmptyScoreZero ==
    /\ (Returned("_calculate_compatibility_score") /\ aspects = << >>) => result = 0
    /\ (Returned("calculate_synastry") /\ result.aspects = << >>) =>
            result.compatibility_score = 0

\* two charts of two planets each, no pair of them in aspect, scored 0
C11_Witness ==
    /\ Returned("calculate_synastry")
    /\ Len(planets_data) = 2 /\ Len(transit_planets) = 2
    /\ result.aspects = << >>
    /\ result.compatibility_score = 0

(***************************************************************************)
(* C12                                                                     *)
(***************************************************************************)
\* the list with aspect a put in front of position i + 1
InsertAt(list, i, a) == SubSeq(list, 1, i) \o << a >> \o SubSeq(list, i + 1, Len(list))

\* C12: adding a major Trine or Sextile to an aspect list, anywhere in it
\* and with the other aspects held fixed, never lowers the compatibility
\* score.
C12_HarmoniousNeverLowers ==
    Returned("_calculate_compatibility_score") =>
        \A h \in {"Trine", "Sextile"} : \A i \in 0..Len(aspects) :
            calculate_compatibility_score(
                InsertAt(aspects, i, [aspect |-> h, is_major |-> TRUE])) >= result

\* a list holding a Square scores below 100, and a Trine added to it raises
\* the score
C12_Witness ==
    /\ Returned("_calculate_compatibility_score")
    /\ \E k \in 1..Len(aspects) : aspects[k] = [aspect |-> "Square", is_major |-> TRUE]
    /\ result < 100
    /\ calculate_compatibility_score(
           Append(aspects, [aspect |-> "Trine", is_major |-> TRUE])) > result

(***************************************************************************)
(* C13                                                                     *)
(***************************************************************************)
\* the mean of two longitudes after the smaller is raised by a full turn
\* when they lie more than half a turn apart, brought back into [0,360)
WrapMidpoint(x, y) ==
    LET lo     == IF x <= y THEN x ELSE y
        hi     == IF x <= y THEN y ELSE x
        raised == IF hi - lo > Deg(180) THEN lo + Deg(360) ELSE lo
    IN  ((raised + hi) \div 2) % Deg(360)

\* the positions of the first chart whose body the second chart holds too
SharedPositions ==
    { i \in DOMAIN planets_data :
        \E j \in DOMAIN transit_planets : transit_planets[j].name = planets_data[i].name }

\* C13: calculate_synastry returns one composite point for each planet
\* name present in both sets, and its longitude is the wrap-corrected
\* circular midpoint: if the two longitudes differ by more than 180 the
\* smaller is raised by 360 before averaging, and the average is brought
\* back into [0,360); 350 and 10 give 0, not 180.
C13_CompositeMidpoint ==
    Returned("calculate_synastry") =>
        /\ Len(result.composite_points) = Cardinality(SharedPositions)
        /\ \A i \in SharedPositions :
              \E k \in DOMAIN result.composite_points :
                  LET point == result.composite_points[k]
                      l1    == planets_data[i].longitude
                      l2    == LongitudeOf(transit_planets, planets_data[i].name)
                  IN  /\ point.planet = planets_data[i].name
                      /\ point.composite_longitude = WrapMidpoint(l1, l2)
                      /\ point.composite_longitude >= 0
                      /\ point.composite_longitude < Deg(360)
                      /\ (l1 = Deg(350) /\ l2 = Deg(10)) => point.composite_longitude = 0
                      /\ (l1 = Deg(10) /\ l2 = Deg(350)) => point.composite_longitude = 0

\* the composite point of 350 and 10 has been computed, and is 0
C13_Witness ==
    /\ Returned("calculate_synastry")
    /\ planets_data = << [name |-> "Sun", longitude |-> Deg(350)] >>
    /\ transit_planets = << [name |-> "Sun", longitude |-> Deg(10)] >>
    /\ Len(result.composite_points) = 1
    /\ result.composite_points[1].composite_longitude = 0

(***************************************************************************)
(* C14                                                                     *)
(***************************************************************************)
\* the whole days of the time difference of the call: the greatest number
\* of days that is not after it
WholeDays == elapsed \div DayParts

\* x and y are the same longitude up to whole turns
SameLongitude(x, y) == (x - y) % Deg(360) = 0

PartTable ==
    << [name |-> "Part_of_Fortune",  plus |-> "Moon",  minus |-> "Sun"],
       [name |-> "Part_of_Spirit",   plus |-> "Sun",   minus |-> "Moon"],
       [name |-> "Part_of_Marriage", plus |-> "Venus", minus |-> "Saturn"] >>

Holds(chart, body) == \E j \in DOMAIN chart : chart[j].name = body

C17_PartsPresentWithBodies ==
    Returned("calculate_arabic_parts") =>
        /\ \A t \in DOMAIN PartTable :
              (\E k \in DOMAIN result : result[k].name = PartTable[t].name)
                  <=> (Holds(planets_data, PartTable[t].plus)
                          /\ Holds(planets_data, PartTable[t].minus))
        /\ \A k, m \in DOMAIN result : result[k].name = result[m].name => k = m
        /\ \A k \in DOMAIN result : \E t \in DOMAIN PartTable : result[k].name = PartTable[t].name

\* a chart without the Moon: Marriage alone is returned
C17_Witness ==
    /\ Returned("calculate_arabic_parts")
    /\ Holds(planets_data, "Sun") /\ ~Holds(planets_data, "Moon")
    /\ Len(result) = 1
    /\ result[1].name = "Part_of_Marriage"

(***************************************************************************)
(* C18                                                                     *)
(***************************************************************************)
\* the zodiac sign whose name is the sign of the call, if it is one
IsZodiacSign == \E k \in DOMAIN signs : sign = Text(signs[k])

ZodiacSign == signs[CHOOSE k \in DOMAIN signs : sign = Text(signs[k])]

\* the rulership signs of a planet of the table, one or two
RulershipSigns(p) ==
    IF "str" \in DOMAIN dignities[p].rulership
    THEN { dignities[p].rulership.str }
    ELSE { dignities[p].rulership.list[k] : k \in DOMAIN dignities[p].rulership.list }

\* the dignity rules of the table that match planet p in zodiac sign z
RulesMatching(p, z) ==
    { rule \in {"exaltation", "fall", "rulership"} :
        \/ rule = "exaltation" /\ z = dignities[p].exaltation
        \/ rule = "fall" /\ z = dignities[p].fall
        \/ rule = "rulership" /\ z \in RulershipSigns(p) }

\* the first of the rules of a set, in the order exaltation, fall, rulership
FirstRule(rules) ==
    IF "exaltation" \in rules THEN "exaltation"
    ELSE IF "fall" \in rules THEN "fall"
    ELSE IF "rulership" \in rules THEN "rulership"
    ELSE "neutral"

\* C18 as stated: for every planet of the dignity table and every zodiac
\* sign, at most one of exaltation, fall and rulership matches the pair.
C18_RulesExclusive ==
    (Returned("calculate_planetary_strength") /\ planet \in DOMAIN dignities
        /\ IsZodiacSign) =>
            Cardinality(RulesMatching(planet, ZodiacSign)) <= 1

\* C18 amended: for every planet of the dignity table and every zodiac
\* sign, at most one of exaltation, fall and rulership matches the pair,
\* except Mercury in Virgo, which is both Mercury's exaltation and one of
\* its rulership signs; the dignity returned is that of the first matching
\* rule in the order exaltation, fall, rulership, so Mercury in Virgo is
\* an exaltation.
C18_RulesExclusiveButMercuryVirgo ==
    (Returned("calculate_planetary_strength") /\ planet \in DOMAIN dignities
        /\ IsZodiacSign) =>
            /\ Cardinality(RulesMatching(planet, ZodiacSign)) > 1
                  <=> (planet = "Mercury" /\ ZodiacSign = "Virgo")
            /\ (planet = "Mercury" /\ ZodiacSign = "Virgo") =>
                  RulesMatching(planet, ZodiacSign) = {"exaltation", "rulership"}
            /\ result.dignity = FirstRule(RulesMatching(planet, ZodiacSign))

\* Mercury in Virgo, in no house and with no aspect: exaltation, 50 + 20
C18_Witness ==
    /\ Returned("calculate_planetary_strength")
    /\ planet = "Mercury" /\ sign = Text("Virgo")
    /\ house = 0 /\ aspects = << >>
    /\ result.dignity = "exaltation"
    /\ result.score = 70

(***************************************************************************)
(* C19                                                                     *)
(***************************************************************************)
\* the dignity delta of the call: that of the first rule matching the
\* planet and the sign, 0 when none does
DignityDelta ==
    LET rule == IF planet \in DOMAIN dignities /\ IsZodiacSign
                THEN FirstRule(RulesMatching(planet, ZodiacSign))
                ELSE "neutral"
    IN  CASE rule = "exaltation" -> 20
          [] rule = "fall"       -> -20
          [] rule = "rulership"  -> 15
          [] rule = "neutral"    -> 0

HouseDelta ==
    CASE house \in {1, 4, 7, 10} -> 10
      [] house \in {2, 5, 8, 11} -> 5
      [] house \in {3, 6, 9, 12} -> -5
      [] OTHER                   -> 0

AspectDelta(aspect) ==
    CASE aspect.is_major /\ aspect.aspect \in {"Trine", "Sextile"}     -> 5
      [] aspect.is_major /\ aspect.aspect \in {"Square", "Opposition"} -> -3
      [] OTHER                                                         -> 0

RECURSIVE AspectDeltaSum(_)
AspectDeltaSum(list) ==
    IF list = << >> THEN 0
    ELSE AspectDelta(list[1]) + AspectDeltaSum(SubSeq(list, 2, Len(list)))

\* C19: for every planet, sign, house and aspect list,
\* calculate_planetary_strength returns the score 50 + dignity delta (the
\* first matching of exaltation +20, fall -20, rulership +15, else 0)
\* + house delta (houses 1, 4, 7, 10: +10; 2, 5, 8, 11: +5; 3, 6, 9, 12:
\* -5; any other value 0) + the sum over the aspects of +5 for a major
\* Trine or Sextile, -3 for a major Square or Opposition and 0 for a
\* Conjunction or a minor aspect, clamped to [0,100].
C19_StrengthScore ==
    Returned("calculate_planetary_strength") =>
        result.score =
            Max(0, Min(100, 50 + DignityDelta + HouseDelta + AspectDeltaSum(aspects)))

(***************************************************************************)
(* C20                                                                     *)
(***************************************************************************)
\* what core operation f returns, called alone on what was passed
InIsolation(f) ==
    LET given == tasks.passed
    IN  CASE f = "calculate_aspects" -> calculate_aspects(given.planets_data)
          [] f = "calculate_transits" ->
                calculate_transits(given.planets_data, given.transit_planets)
          [] f = "calculate_progressions" ->
                calculate_progressions(given.planets_data, elapsed)
          [] f = "calculate_primary_directions" ->
                calculate_primary_directions(given.planets_data, elapsed)
          [] f = "calculate_synastry" ->
                calculate_synastry(given.planets_data, given.transit_planets)
          [] f = "calculate_arabic_parts" ->
                calculate_arabic_parts(given.planets_data, ascendant)
          [] f = "calculate_planetary_strength" ->
                calculate_planetary_strength(planet, sign, house, given.aspects)

\* C20: every core operation leaves the planet maps and the aspect list
\* it is given unchanged (the +360 wrap correction of a composite point is
\* not written back to a longitude), and there is no other shared state:
\* however two concurrent calls on the same objects are interleaved, each
\* returns what it returns called alone.
C20_CallsIndependent ==
    /\ planets_data = tasks.passed.planets_data
    /\ transit_planets = tasks.passed.transit_planets
    /\ aspects = tasks.passed.aspects
    /\ \A t \in DOMAIN tasks.calls :
          tasks.calls[t].pc = "return" =>
              tasks.calls[t].result = InIsolation(tasks.calls[t].op)

\* calculate_synastry has corrected the wrap of a composite point (the Sun
\* at 350 and at 0 or 8), calculate_transits has run on the same charts,
\* and the Sun is still at 350
C20_Witness ==
    /\ op = "concurrent"
    /\ tasks.calls[1].op = "calculate_synastry" /\ tasks.calls[1].pc = "return"
    /\ tasks.calls[2].op = "calculate_transits" /\ tasks.calls[2].pc = "return"
    /\ tasks.passed.planets_data[1].longitude = Deg(350)
    /\ tasks.passed.transit_planets[1].longitude < Deg(170)
    /\ tasks.calls[1].result.composite_points[1].composite_longitude < Deg(90)
    /\ planets_data[1].longitude = Deg(350)

(***************************************************************************)
(* C22                                                                     *)
(***************************************************************************)
\* whole turns added to or taken from an angle
WholeTurns == { k * Deg(360) : k \in (-(Turns + 1))..(Turns + 1) }

CompositeOf(x, y) ==
    calculate_synastry(<< [name |-> "Sun", longitude |-> x] >>,
                       << [name |-> "Sun", longitude |-> y] >>)
        .composite_points[1].composite_longitude

\* C29: the composite longitude of two longitudes a and b of [0,360) lies
\* on the shorter arc between them, midway: it is as far from a as from b,
\* at half the angular separation of a and b, and the two charts swapped
\* give the same composite longitude, also when a and b are exactly 180
\* apart (0 and 180 give 90 in either order).
C29_CompositeOnShorterArc ==
    Returned("calculate_synastry") =>
        \A k \in DOMAIN result.composite_points :
            LET point == result.composite_points[k]
                a     == point.person1_longitude
                b     == point.person2_longitude
                c     == point.composite_longitude
            IN  /\ Separation(a, c) = Separation(c, b)
                /\ 2 * Separation(a, c) = Separation(a, b)
                /\ Separation(a, c) <= Deg(90)
                /\ c = CompositeOf(b, a)
                /\ (a = 0 /\ b = Deg(180)) => c = Deg(90)
                /\ (a = Deg(180) /\ b = 0) => c = Deg(90)

\* the composite point of 180 and 0, exactly half a turn apart: 90, as for
\* 0 and 180
C29_Witness ==
    /\ Returned("calculate_synastry")
    /\ planets_data = << [name |-> "Sun", longitude |-> Deg(180)] >>
    /\ transit_planets = << [name |-> "Sun", longitude |-> 0] >>
    /\ result.composite_points[1].composite_longitude = Deg(90)
    /\ CompositeOf(0, Deg(180)) = Deg(90)

(***************************************************************************)
(* C30                                                                     *)
(***************************************************************************)
\* C30: calculate_planetary_strength labels the dignity 'rulership', and
\* adds the factor and the +15 of a rulership, only when the sign it is
\* given is exactly one of the rulership signs of the planet, for every
\* planet of the table, its rulership kept as one sign or as a list of two,
\* and for every sign a caller passes, the empty sign of a planet without
\* sign included.
C30_RulershipOnlyOnExactSign ==
    (Returned("calculate_planetary_strength") /\ planet \in DOMAIN dignities) =>
        ((\/ result.dignity = "rulership"
          \/ \E k \in DOMAIN result.factors : result.factors[k] = "Rulership")
            => \E z \in RulershipSigns(planet) : sign = Text(z))

(***************************************************************************)
(* C23                                                                     *)
(***************************************************************************)
\* the keys held whose hash is that of the raw key
HoldersOf(raw_key) == { i \in DOMAIN keys : keys[i].key_hash = [sha256 |-> raw_key] }

\* the key is active, has not expired and has requests left
Usable(key) ==
    /\ key.is_active
    /\ (key.expires_at = None \/ now <= key.expires_at.at)
    /\ key.usage_count < key.rate_limit

\* C23: verify_key called with the raw key of a stored key that can make a
\* request returns that key and raises its usage_count by exactly 1,
\* leaving every other key as it was; called with a raw key that matches
\* no stored key it returns None and changes no key.
C23_VerifyCountsOnce ==
    [][(pc = "serving" /\ op' = "verify_key") =>
          /\ \A i \in HoldersOf(request'.raw_key) :
                Usable(keys[i]) =>
                    /\ result' = keys'[i]
                    /\ result'.key_id = keys[i].key_id
                    /\ keys' = [keys EXCEPT ![i].usage_count = keys[i].usage_count + 1]
          /\ HoldersOf(request'.raw_key) = {} =>
                (result' = None /\ keys' = keys)]_vars

\* the second of two keys has been verified a second time, the first key
\* held being unused
C23_Witness ==
    /\ op = "verify_key" /\ pc = "serving"
    /\ Len(keys) = 2
    /\ request.raw_key = keys[2].key_id
    /\ result = keys[2]
    /\ keys[2].usage_count = 2
    /\ keys[1].usage_count = 0

(***************************************************************************)
(* C24                                                                     *)
(***************************************************************************)
\* the key was issued for the raw key
IssuedFor(key, raw_key) == key.key_hash = [sha256 |-> raw_key]

\* C24: revoke_key on the id of a key held returns True and makes the key
\* inactive; and a key that is inactive (no key is at start, so it was
\* revoked) stays held and inactive and keeps its usage_count through
\* every verify_key, generate_key and reading of the key file, whether the
\* file is read back or not, and verify_key with its raw key returns None.
C24_RevokedForGood ==
    [][pc = "serving" =>
          /\ (op' = "revoke_key" /\ \E i \in DOMAIN keys :
                                       keys[i].key_id = request'.key_id) =>
                /\ result' = TRUE
                /\ \A i \in DOMAIN keys' :
                      keys'[i].key_id = request'.key_id => ~keys'[i].is_active
          /\ \A i \in DOMAIN keys :
                ~keys[i].is_active =>
                    /\ i \in DOMAIN keys'
                    /\ keys'[i].key_id = keys[i].key_id
                    /\ ~keys'[i].is_active
                    /\ keys'[i].usage_count = keys[i].usage_count
                    /\ (op' = "verify_key" /\ IssuedFor(keys[i], request'.raw_key))
                          => result' = None]_vars

\* a key used once and then revoked is refused, in a manager that has read
\* the file again without success (it holds a demo key) and has issued a
\* second key since
C24_Witness ==
    /\ op = "verify_key" /\ pc = "serving"
    /\ Len(keys) = 3
    /\ ~keys[1].is_active /\ keys[1].usage_count = 1
    /\ keys[2].name = "demo_key"
    /\ request.raw_key = keys[1].key_id
    /\ result = None

(***************************************************************************)
(* C27                                                                     *)
(***************************************************************************)
\* the constructor has run on a path at which there was no file
ConstructedWithoutFile ==
    op = "APIKeyManager" /\ pc # "call" /\ request.config_path = None

\* C27: when the API-key config file does not exist, constructing
\* APIKeyManager completes without raising and leaves a default
\* configuration: the manager holds one demo key with READ permission and
\* the config file has been created, containing that key.
C27_DefaultConfigWithoutFile ==
    ConstructedWithoutFile =>
        /\ pc = "serving"
        /\ result.raised = ""
        /\ Len(keys) = 1
        /\ keys[1].name = "demo_key"
        /\ keys[1].permissions = << "READ" >>
        /\ key_file # None
        /\ Len(key_file.api_keys) = 1
        /\ key_file.api_keys[1].key_id = keys[1].key_id

(***************************************************************************)
(* C25                                                                     *)
(***************************************************************************)
\* C25: through AuthenticationMiddleware.dispatch an active, unexpired key
\* with rate_limit N has each request forwarded to the endpoint while its
\* usage_count is below N, so a key at usage_count 0 has exactly its first
\* N requests forwarded; and a request is answered with the rate-limit
\* rejection only when the usage_count of the key had already reached N
\* before that request.
C25_FirstNForwarded ==
    [][(pc = "serving" /\ op' = "dispatch" /\ request'.path = "/planets"
            /\ request'.api_key # << >>) =>
          \A i \in DOMAIN keys :
              IssuedFor(keys[i], request'.api_key[1]) =>
                  /\ Usable(keys[i]) => result'.status_code = 200
                  /\ (result'.status_code = 429
                        /\ result'.message = "Rate limit exceeded")
                        => keys[i].usage_count >= keys[i].rate_limit]_vars

ForwardedIn(client_ip, start) ==
    { k \in DOMAIN forwarded[client_ip] :
        /\ start <= forwarded[client_ip][k]
        /\ forwarded[client_ip][k] < start + WindowTicks }

\* C26: for each client IP, as RateLimitMiddleware determines it, at most
\* max_requests_per_minute requests are passed on to the application
\* within any window of 60 seconds, however the requests of that client
\* and of the others are interleaved.
C26_AtMostMaxPerWindow ==
    (op \in { "rate_limit_dispatch", "time" }) =>
        \A client_ip \in DOMAIN forwarded :
            \A start \in 0..now :
                Cardinality(ForwardedIn(client_ip, start)) <= max_requests_per_minute

\* a client that was passed on its two requests of the minute is refused
\* half a minute later, a second client having been passed on in between
C26_Witness ==
    /\ op = "rate_limit_dispatch"
    /\ max_requests_per_minute = 2
    /\ DOMAIN forwarded = ClientIPs
    /\ forwarded["10.0.0.1"] = << 0, 0 >>
    /\ Len(forwarded["10.0.0.2"]) >= 1
    /\ now = 1
    /\ request.host = "10.0.0.1" /\ request.x_forwarded_for = << >>
    /\ request.x_real_ip = << >>
    /\ result.status_code = 429

(***************************************************************************)
(* C21                                                                     *)
(***************************************************************************)
\* the ephemeris library failed for the request served
LookupFailed == swe.julday_raises \/ swe.failing # {}

\* C21: when the ephemeris lookup of a body fails, the failure reaches the
\* caller as a hard failure: the request ends in an error, no position
\* with longitude 0 stands in for the body, and no planet set with such a
\* default is given to calculate_transits.
C21_LookupFailureIsHard ==
    (op = "transits" /\ pc # "call" /\ LookupFailed) =>
        /\ pc = "raised"
        /\ result.status_code = 500
        /\ transit_planets = << >>

====
